---- MODULE Spec2Model ----
(***************************************************************************)
(* A model of the GPA calculator of GPA_counter_refactored:                *)
(*   src/utils/config.py, src/utils/calculator.py, src/utils/data_loader.py *)
(*                                                                         *)
(* Python values are records [ty, n, s]:                                   *)
(*   ty = "int"     a Python int, n is its value in tenths (72 is n = 720) *)
(*   ty = "hugeint" a Python int beyond the range of a float (10**400)     *)
(*   ty = "float"   a finite float, n is its value in tenths (59.9 is 599) *)
(*   ty = "nan"     float('nan'), what pandas delivers for an empty cell   *)
(*   ty = "inf"     an infinite float, n is its sign (1 or -1)             *)
(*   ty = "str"     a str, s is its text as a sequence of characters       *)
(*   ty = "none"    None                                                   *)
(* Numbers are exact fixed-point values with one decimal digit; the texts  *)
(* the model draws have at most one digit after the decimal point.         *)
(* A Chinese character is written as its pinyin syllable, so the str       *)
(* "不及格" is the three characters <<"bu", "ji", "ge">>.                  *)
(***************************************************************************)
EXTENDS Integers, Sequences, FiniteSets, TLC

VARIABLES
    course_names,    \* GpaCalculator.course_names
    course_grades,   \* GpaCalculator.course_grades
    course_credits,  \* GpaCalculator.course_credits
    course_count,    \* GpaCalculator.course_count
    total_credits,   \* GpaCalculator.total_credits
    last,            \* the most recent call on the calculator and how it ended
    args,            \* the arguments of the latest load_data call, if it returned
    repeat,          \* the latest load_data call repeated the arguments in args
    loaded_once,     \* some load_data call has returned normally
    pending,         \* arguments prepared for a single load_data call
    file,            \* the spreadsheet file the user points the loader at
    table,           \* what load_from_excel returned or raised for it
    history_file,    \* DataPersistence.history_file, the file on disk
    reply,           \* the most recent call on the history and how it ended
    given,           \* the dict passed to the latest save_record, as passed
    record_data,     \* the same dict as save_record left it
    console,         \* where main() and ConsoleUI.run stand, and the exit code
    window,          \* MainWindow: its course lists, labels and save button
    writers          \* the save_record calls under way, one per process

vars == <<course_names, course_grades, course_credits, course_count,
          total_credits, last, args, repeat, loaded_once, pending, file, table,
          history_file, reply, given, record_data, console, window, writers>>

\* The variables of the history.
History == <<history_file, reply, given, record_data>>

\* The variables of the user interfaces and of the processes saving at the
\* same time.
Interfaces == <<console, window, writers>>

CourseSet == <<course_names, course_grades, course_credits, course_count,
               total_credits>>

\* ------------------------------------------------------------------------
\* Bounds of the model

\* The longest course list a caller passes to load_data.
MaxLen == 2

\* The most rows a spreadsheet has, its first row included.
MaxRows == 4

\* The longest history log save_record is called on.
MaxLog == 2

\* ------------------------------------------------------------------------
\* Python values

PyInt(k) == [ty |-> "int", n |-> k * 10, s |-> <<>>]
PyHugeInt == [ty |-> "hugeint", n |-> 0, s |-> <<>>]
PyFloat(tenths) == [ty |-> "float", n |-> tenths, s |-> <<>>]
PyNaN == [ty |-> "nan", n |-> 0, s |-> <<>>]
PyInf(sign) == [ty |-> "inf", n |-> sign, s |-> <<>>]
PyStr(text) == [ty |-> "str", n |-> 0, s |-> text]
PyNone == [ty |-> "none", n |-> 0, s |-> <<>>]

IsFinite(v) == v.ty \in {"int", "float"}

\* v < k for a Python number v and a bound k given in tenths; every
\* comparison with NaN is false.
NumLt(v, k) ==
    \/ IsFinite(v) /\ v.n < k
    \/ v.ty = "inf" /\ v.n < 0

\* v > k, likewise.
NumGt(v, k) ==
    \/ IsFinite(v) /\ v.n > k
    \/ v.ty = "inf" /\ v.n > 0

\* v == 0
NumIsZero(v) == IsFinite(v) /\ v.n = 0

\* a + b on floats: NaN absorbs, then infinity (load_data never stores a
\* negative infinity: it is clamped to 0.0 first).
NumAdd(a, b) ==
    IF a.ty = "nan" \/ b.ty = "nan" THEN PyNaN
    ELSE IF a.ty = "inf" THEN a
    ELSE IF b.ty = "inf" THEN b
    ELSE IF a.ty = "int" /\ b.ty = "int" THEN [ty |-> "int", n |-> a.n + b.n, s |-> <<>>]
    ELSE PyFloat(a.n + b.n)

\* sum(values): the built-in starts from the int 0.
RECURSIVE PySum(_)
PySum(values) ==
    IF values = <<>> THEN PyInt(0)
    ELSE NumAdd(PySum(SubSeq(values, 1, Len(values) - 1)), values[Len(values)])

\* ------------------------------------------------------------------------
\* float(x)

DigitChars == <<"0", "1", "2", "3", "4", "5", "6", "7", "8", "9">>

IsDigit(c) == \E d \in 1..Len(DigitChars) : DigitChars[d] = c

DigitOf(c) == (CHOOSE d \in 1..Len(DigitChars) : DigitChars[d] = c) - 1

IsDigits(text) == \A i \in 1..Len(text) : IsDigit(text[i])

\* The value of a run of decimal digits.
RECURSIVE NatOf(_)
NatOf(text) ==
    IF text = <<>> THEN 0
    ELSE NatOf(SubSeq(text, 1, Len(text) - 1)) * 10 + DigitOf(text[Len(text)])

\* str.strip() of whitespace.
RECURSIVE Strip(_)
Strip(text) ==
    IF text = <<>> THEN text
    ELSE IF Head(text) = " " THEN Strip(Tail(text))
    ELSE IF text[Len(text)] = " " THEN Strip(SubSeq(text, 1, Len(text) - 1))
    ELSE text

\* The digits of an unsigned decimal literal "ddd", "ddd.", "ddd.d", ".d":
\* its value in tenths, or -1 when the text is no such literal.
UnsignedTenths(text) ==
    LET dots == {i \in 1..Len(text) : text[i] = "."}
    IN  IF dots = {}
        THEN IF text # <<>> /\ IsDigits(text) THEN NatOf(text) * 10 ELSE -1
        ELSE IF Cardinality(dots) > 1 THEN -1
        ELSE LET d == CHOOSE i \in dots : TRUE
                 whole == SubSeq(text, 1, d - 1)
                 frac == SubSeq(text, d + 1, Len(text))
             IN  IF ~(IsDigits(whole) /\ IsDigits(frac)) \/ Len(whole) + Len(frac) = 0
                 THEN -1
                 ELSE NatOf(whole) * 10
                      + (IF frac = <<>> THEN 0 ELSE DigitOf(frac[1]))

\* float(text) for a str: surrounding whitespace is ignored, then an
\* optional sign, then "nan", "inf", "infinity" or a decimal literal.
\* Anything else raises ValueError.
ParseFloat(text) ==
    LET t == Strip(text)
        signed == t # <<>> /\ Head(t) \in {"+", "-"}
        sign == IF signed /\ Head(t) = "-" THEN -1 ELSE 1
        body == IF signed THEN Tail(t) ELSE t
    IN  IF body = <<"n", "a", "n">> THEN [raise |-> "", value |-> PyNaN]
        ELSE IF body \in {<<"i", "n", "f">>, <<"i", "n", "f", "i", "n", "i", "t", "y">>}
        THEN [raise |-> "", value |-> PyInf(sign)]
        ELSE IF UnsignedTenths(body) < 0 THEN [raise |-> "ValueError", value |-> PyNone]
        ELSE [raise |-> "", value |-> PyFloat(sign * UnsignedTenths(body))]

\* The built-in float(x): the float, or the exception it raises.
float(x) ==
    CASE x.ty = "int" -> [raise |-> "", value |-> PyFloat(x.n)]
      [] x.ty = "hugeint" -> [raise |-> "OverflowError", value |-> PyNone]
      [] x.ty \in {"float", "nan", "inf"} -> [raise |-> "", value |-> x]
      [] x.ty = "str" -> ParseFloat(x.s)
      [] OTHER -> [raise |-> "TypeError", value |-> PyNone]

\* ------------------------------------------------------------------------
\* config.py

\* 优秀, 良好, 中等, 及格, 不及格
YouXiu == <<"you", "xiu">>
LiangHao == <<"liang", "hao">>
ZhongDeng == <<"zhong", "deng">>
JiGe == <<"ji", "ge">>
BuJiGe == <<"bu", "ji", "ge">>

\* GRADE_MAPPING with 及格 entered as 60.
GRADE_MAPPING_pass60 ==
    [label \in {YouXiu, LiangHao, ZhongDeng, JiGe, BuJiGe} |->
        CASE label = YouXiu -> PyInt(95)
          [] label = LiangHao -> PyInt(85)
          [] label = ZhongDeng -> PyInt(75)
          [] label = JiGe -> PyInt(60)
          [] OTHER -> PyInt(0)]

GRADE_MAPPING ==
    [label \in {YouXiu, LiangHao, ZhongDeng, JiGe, BuJiGe} |->
        CASE label = YouXiu -> PyInt(95)
          [] label = LiangHao -> PyInt(85)
          [] label = ZhongDeng -> PyInt(75)
          [] label = JiGe -> PyInt(65)
          [] OTHER -> PyInt(0)]

\* ------------------------------------------------------------------------
\* calculator.py: GpaCalculator

\* The calculator object.
Self ==
    [course_names |-> course_names, course_grades |-> course_grades,
     course_credits |-> course_credits, course_count |-> course_count,
     total_credits |-> total_credits]

\* GpaCalculator.__init__
NewCalculator ==
    [course_names |-> <<>>, course_grades |-> <<>>, course_credits |-> <<>>,
     course_count |-> 0, total_credits |-> PyInt(0)]

\* One round of the credit loop: the value appended, or the exception that
\* leaves the loop.
credit_value(credit) ==
    LET f == float(credit)
    IN  IF f.raise = ""
        THEN [raise |-> "",
              value |-> IF NumLt(f.value, 0) THEN PyFloat(0) ELSE f.value]
        ELSE IF f.raise \in {"ValueError", "TypeError"}
        THEN [raise |-> "", value |-> PyFloat(0)]
        ELSE [raise |-> f.raise, value |-> PyNone]

\* One round of the grade loop.
grade_value(grade) ==
    IF grade.ty = "str" /\ grade.s \in DOMAIN GRADE_MAPPING
    THEN [raise |-> "", value |-> GRADE_MAPPING[grade.s]]
    ELSE LET f == float(grade)
         IN  IF f.raise = ""
             THEN [raise |-> "",
                   value |-> IF NumLt(f.value, 0) THEN PyFloat(0)
                             ELSE IF NumGt(f.value, 1000) THEN PyFloat(1000)
                             ELSE f.value]
             ELSE IF f.raise \in {"ValueError", "TypeError"}
             THEN [raise |-> "", value |-> PyFloat(0)]
             ELSE [raise |-> f.raise, value |-> PyNone]

\* for i, credit in enumerate(course_credits): the list built so far and the
\* exception that ended the loop early, if any.
RECURSIVE CreditLoop(_, _)
CreditLoop(items, built) ==
    IF items = <<>> THEN [raise |-> "", values |-> built]
    ELSE LET r == credit_value(Head(items))
         IN  IF r.raise # "" THEN [raise |-> r.raise, values |-> built]
             ELSE CreditLoop(Tail(items), Append(built, r.value))

\* for i, grade in enumerate(course_grades)
RECURSIVE GradeLoop(_, _)
GradeLoop(items, built) ==
    IF items = <<>> THEN [raise |-> "", values |-> built]
    ELSE LET r == grade_value(Head(items))
         IN  IF r.raise # "" THEN [raise |-> r.raise, values |-> built]
             ELSE GradeLoop(Tail(items), Append(built, r.value))

\* load_data clearing the calculator before it validates its arguments.
load_data_clearing_first(self, names, grades, credits) ==
    IF ~(names.list /\ grades.list /\ credits.list)
    THEN [self |-> NewCalculator, raise |-> "TypeError"]
    ELSE IF ~(Len(names.items) = Len(grades.items)
              /\ Len(grades.items) = Len(credits.items))
    THEN [self |-> NewCalculator, raise |-> "ValueError"]
    ELSE IF Len(names.items) = 0
    THEN [self |-> NewCalculator, raise |-> "ValueError"]
    ELSE LET named == [self EXCEPT !.course_names = names.items,
                                   !.course_count = Len(names.items)]
             cl == CreditLoop(credits.items, <<>>)
             credited == [named EXCEPT !.course_credits = cl.values]
             summed == [credited EXCEPT !.total_credits = PySum(cl.values)]
             gl == GradeLoop(grades.items, <<>>)
             graded == [summed EXCEPT !.course_grades = gl.values]
         IN  IF cl.raise # "" THEN [self |-> credited, raise |-> cl.raise]
             ELSE [self |-> graded, raise |-> gl.raise]

\* load_data without the reset of self.course_credits before the loop: the
\* credits of a call are appended to those already held.
load_data_appending(self, names, grades, credits) ==
    IF ~(names.list /\ grades.list /\ credits.list)
    THEN [self |-> self, raise |-> "TypeError"]
    ELSE IF ~(Len(names.items) = Len(grades.items)
              /\ Len(grades.items) = Len(credits.items))
    THEN [self |-> self, raise |-> "ValueError"]
    ELSE IF Len(names.items) = 0
    THEN [self |-> self, raise |-> "ValueError"]
    ELSE LET named == [self EXCEPT !.course_names = names.items,
                                   !.course_count = Len(names.items)]
             cl == CreditLoop(credits.items, self.course_credits)
             credited == [named EXCEPT !.course_credits = cl.values]
             summed == [credited EXCEPT !.total_credits = PySum(cl.values)]
             gl == GradeLoop(grades.items, <<>>)
             graded == [summed EXCEPT !.course_grades = gl.values]
         IN  IF cl.raise # "" THEN [self |-> credited, raise |-> cl.raise]
             ELSE [self |-> graded, raise |-> gl.raise]

\* GpaCalculator.load_data. An argument is [list, items]: whether it is a
\* list, and its items. The result is the calculator the call leaves and
\* the exception it raised ("" when it returned).
load_data(self, names, grades, credits) ==
    IF ~(names.list /\ grades.list /\ credits.list)
    THEN [self |-> self, raise |-> "TypeError"]
    ELSE IF ~(Len(names.items) = Len(grades.items)
              /\ Len(grades.items) = Len(credits.items))
    THEN [self |-> self, raise |-> "ValueError"]
    ELSE IF Len(names.items) = 0
    THEN [self |-> self, raise |-> "ValueError"]
    ELSE LET named == [self EXCEPT !.course_names = names.items,
                                   !.course_count = Len(names.items)]
             cl == CreditLoop(credits.items, <<>>)
             credited == [named EXCEPT !.course_credits = cl.values]
             summed == [credited EXCEPT !.total_credits = PySum(cl.values)]
             gl == GradeLoop(grades.items, <<>>)
             graded == [summed EXCEPT !.course_grades = gl.values]
         IN  IF cl.raise # "" THEN [self |-> credited, raise |-> cl.raise]
             ELSE [self |-> graded, raise |-> gl.raise]

\* FAIL_GRADE_HANDLING["gpa_value"]
gpa_value == 0

\* The average taking the grade-point placeholder for a failed course.
avg_score_value_gpa == gpa_value

\* FAIL_GRADE_HANDLING["avg_score_value"]
avg_score_value == 40

\* The quotient num / den of a float division, kept exact.
Ratio(num, den) == [ty |-> "ratio", num |-> num, den |-> den]

\* The float round(x, 1) returns, in tenths. Where x lies within the error
\* of binary arithmetic of a half of a tenth, the binary value decides
\* which neighbour is returned and the model keeps both: lo and hi.
Rounded(lo, hi) == [ty |-> "rounded", lo |-> lo, hi |-> hi]

\* round(num / den, 1) always taking the tenth above.
round_up(num, den, exact) ==
    LET fl == (10 * num) \div den
        r  == (10 * num) % den
    IN  IF r = 0 THEN Rounded(fl, fl) ELSE Rounded(fl + 1, fl + 1)

\* round(num / den, 1) for num >= 0 and den > 0. exact says that the float
\* holds num / den exactly, so that a half is rounded to the even tenth.
round(num, den, exact) ==
    LET fl == (10 * num) \div den
        r  == (10 * num) % den
    IN  IF 2 * r < den THEN Rounded(fl, fl)
        ELSE IF 2 * r > den THEN Rounded(fl + 1, fl + 1)
        ELSE IF exact THEN (IF fl % 2 = 0 THEN Rounded(fl, fl)
                            ELSE Rounded(fl + 1, fl + 1))
        ELSE Rounded(fl, fl + 1)

\* a * b for a stored grade or grade point a and a stored credit b, in
\* hundredths: [ty, n] with ty "fin", "nan" or "inf". Stored values are
\* never negative.
Product(a, b) ==
    IF a.ty = "nan" \/ b.ty = "nan" THEN [ty |-> "nan", n |-> 0]
    ELSE IF a.ty = "inf" \/ b.ty = "inf"
    THEN (IF NumIsZero(a) \/ NumIsZero(b) THEN [ty |-> "nan", n |-> 0]
          ELSE [ty |-> "inf", n |-> 0])
    ELSE [ty |-> "fin", n |-> a.n * b.n]

\* sum(x * credit for x, credit in zip(xs, credits)): zip stops at the
\* shorter list.
RECURSIVE WeightedSum(_, _)
WeightedSum(xs, credits) ==
    IF xs = <<>> \/ credits = <<>> THEN [ty |-> "fin", n |-> 0]
    ELSE LET head == Product(Head(xs), Head(credits))
             rest == WeightedSum(Tail(xs), Tail(credits))
         IN  IF head.ty = "nan" \/ rest.ty = "nan" THEN [ty |-> "nan", n |-> 0]
             ELSE IF head.ty = "inf" \/ rest.ty = "inf"
             THEN [ty |-> "inf", n |-> 0]
             ELSE [ty |-> "fin", n |-> head.n + rest.n]

\* weighted / total for a weighted sum and self.total_credits, which the
\* callers have found to be other than zero.
Divide(weighted, total) ==
    IF weighted.ty = "nan" \/ total.ty = "nan" THEN PyNaN
    ELSE IF weighted.ty = "inf"
    THEN (IF total.ty = "inf" THEN PyNaN ELSE PyInf(1))
    ELSE IF total.ty = "inf" THEN Ratio(0, 1)
    ELSE Ratio(weighted.n, total.n * 10)

\* adjusted_grades with a grade of exactly 60 replaced as well.
adjusted_grades_at60(self) ==
    [i \in 1..Len(self.course_grades) |->
        IF NumLt(self.course_grades[i], 601) THEN PyInt(avg_score_value)
        ELSE self.course_grades[i]]

\* adjusted_grades of calculate_average_score
adjusted_grades(self) ==
    [i \in 1..Len(self.course_grades) |->
        IF NumLt(self.course_grades[i], 600) THEN PyInt(avg_score_value)
        ELSE self.course_grades[i]]

\* calculate_average_score without the total_credits guard.
calculate_average_score_unguarded(self) ==
    IF self.course_count = 0 THEN [raise |-> "ValueError", value |-> PyNone]
    ELSE [raise |-> "",
          value |-> Divide(WeightedSum(adjusted_grades(self),
                                       self.course_credits),
                           self.total_credits)]

\* GpaCalculator.calculate_average_score: the exception raised ("" if
\* none) and the value returned.
calculate_average_score(self) ==
    IF self.course_count = 0 THEN [raise |-> "ValueError", value |-> PyNone]
    ELSE IF NumIsZero(self.total_credits)
    THEN [raise |-> "ValueError", value |-> PyNone]
    ELSE [raise |-> "",
          value |-> Divide(WeightedSum(adjusted_grades(self),
                                       self.course_credits),
                           self.total_credits)]

\* The grade point calculate_course_gpa appends for one stored grade.
\* int(grade) raises for NaN and infinity, which the loop catches.
course_gpa(grade) ==
    IF NumLt(grade, 600) THEN Rounded(0, 0)
    ELSE IF ~IsFinite(grade) THEN Rounded(0, 0)
    ELSE LET m == (grade.n \div 10) \div 10
             n == grade.n - 100 * m
             gpa == 100 * m + n - 500
         IN  IF gpa < 0 THEN Rounded(0, 0)
             ELSE round(gpa, 100, grade.n % 25 = 0)

\* GpaCalculator.calculate_course_gpa: errors inside the loop are caught
\* per course, so only the empty calculator raises.
calculate_course_gpa(self) ==
    IF self.course_count = 0 THEN [raise |-> "ValueError", value |-> PyNone]
    ELSE [raise |-> "",
          value |-> [i \in 1..Len(self.course_grades) |->
                        course_gpa(self.course_grades[i])]]

\* overall_gpa with every course weighted alike, whatever its credits.
overall_gpa_unweighted(self, course_gpa_list, side) ==
    LET gpas == [i \in 1..Len(course_gpa_list) |->
                    PyFloat(IF side = "lo" THEN course_gpa_list[i].lo
                            ELSE course_gpa_list[i].hi)]
        ones == [i \in 1..Len(self.course_credits) |->
                    IF IsFinite(self.course_credits[i]) THEN PyFloat(10)
                    ELSE self.course_credits[i]]
        q == Divide(WeightedSum(gpas, ones),
                    IF IsFinite(self.total_credits)
                    THEN PyFloat(10 * Len(self.course_credits))
                    ELSE self.total_credits)
    IN  IF q.ty = "ratio" THEN round(q.num, q.den, FALSE) ELSE q

\* total_weighted_gpa / self.total_credits, rounded, with every grade
\* point at the lower (side = "lo") or upper (side = "hi") of its values.
overall_gpa(self, course_gpa_list, side) ==
    LET gpas == [i \in 1..Len(course_gpa_list) |->
                    PyFloat(IF side = "lo" THEN course_gpa_list[i].lo
                            ELSE course_gpa_list[i].hi)]
        q == Divide(WeightedSum(gpas, self.course_credits),
                    self.total_credits)
    IN  IF q.ty = "ratio" THEN round(q.num, q.den, FALSE) ELSE q

\* GpaCalculator.calculate_overall_gpa
calculate_overall_gpa(self) ==
    IF self.course_count = 0 THEN [raise |-> "ValueError", value |-> PyNone]
    ELSE IF NumIsZero(self.total_credits)
    THEN [raise |-> "ValueError", value |-> PyNone]
    ELSE LET course_gpa_list == calculate_course_gpa(self).value
             lo == overall_gpa(self, course_gpa_list, "lo")
             hi == overall_gpa(self, course_gpa_list, "hi")
         IN  [raise |-> "",
              value |-> IF lo.ty = "rounded" THEN Rounded(lo.lo, hi.hi)
                        ELSE lo]

\* ------------------------------------------------------------------------
\* config.py: EXCEL_CONFIG, as 0-based row and column indexes

start_row == 1
course_name_col == 1
course_grade_col == 2
course_credit_col == 3

\* ------------------------------------------------------------------------
\* data_loader.py: DataLoader

\* pd.notna(x) taking every cell as filled.
notna_always(x) == TRUE

\* pd.notna(x)
notna(x) == x.ty \notin {"nan", "none"}

\* The decimal digits of a natural number.
RECURSIVE NatText(_)
NatText(k) ==
    IF k < 10 THEN <<DigitChars[k + 1]>>
    ELSE Append(NatText(k \div 10), DigitChars[(k % 10) + 1])

\* str(x), for the values the model draws: text, whole numbers, NaN.
str(x) ==
    CASE x.ty = "str" -> x.s
      [] x.ty \in {"int", "int64"} /\ x.n >= 0 -> NatText(x.n \div 10)
      [] x.ty = "nan" -> <<"n", "a", "n">>
      [] OTHER -> <<"N", "o", "n", "e">>

\* The texts pd.read_excel reads as a missing value when it is called, as
\* here, without na_values or keep_default_na: those of pandas' default
\* list that the sheets of the model hold.
na_values == { <<>>, <<"N", "A">>, <<"n", "a", "n">> }

\* A cell as the frame holds it: a text of na_values has become NaN.
na_cell(cell) ==
    IF cell.ty = "str" /\ cell.s \in na_values THEN PyNaN ELSE cell

\* pd.read_excel(file_path): the first row of the sheet names the columns,
\* the rows below it are the rows of the frame. A sheet is [ncols, rows].
read_excel(sheet) ==
    [ncols |-> IF sheet.rows = <<>> THEN 0 ELSE sheet.ncols,
     rows |-> IF sheet.rows = <<>> THEN <<>>
              ELSE [i \in 1..(Len(sheet.rows) - 1) |->
                       [c \in 1..Len(sheet.rows[i + 1]) |->
                           na_cell(sheet.rows[i + 1][c])]]]

\* df.iloc[i, col] with 0-based i and col
iloc(df, i, col) == df.rows[i + 1][col + 1]

Max3(a, b, c) ==
    IF a >= b /\ a >= c THEN a ELSE IF b >= c THEN b ELSE c

\* The frame rows whose name cell is not empty, in order.
ValidRows(df) ==
    LET ok(i) == /\ notna(iloc(df, i, course_name_col))
                 /\ Strip(str(iloc(df, i, course_name_col))) # <<>>
        F[i \in start_row..Len(df.rows)] ==
            IF i >= Len(df.rows) THEN <<>>
            ELSE IF ok(i) THEN <<i>> \o F[i + 1] ELSE F[i + 1]
    IN  IF Len(df.rows) <= start_row THEN <<>> ELSE F[start_row]

NoTable ==
    [raise |-> "not called", course_count |-> 0, course_names |-> <<>>,
     course_grades |-> <<>>, course_credits |-> <<>>]

Raised(exception) == [NoTable EXCEPT !.raise = exception]

\* DataLoader.load_from_excel. A file is [exists, ext, parses, sheet]: ext is
\* os.path.splitext(file_path)[1].lower(), parses is whether pandas can
\* read the file at all. Every exception inside the try block leaves as
\* ValueError.
load_from_excel(f) ==
    IF ~f.exists THEN Raised("FileNotFoundError")
    ELSE IF f.ext \notin {".xlsx", ".xls"} THEN Raised("ValueError")
    ELSE IF ~f.parses THEN Raised("ValueError")
    ELSE LET df == read_excel(f.sheet)
             required_cols ==
                 Max3(course_name_col, course_grade_col, course_credit_col) + 1
             valid_rows == ValidRows(df)
         IN  IF df.rows = <<>> \/ df.ncols = 0 THEN Raised("ValueError")
             ELSE IF df.ncols < required_cols THEN Raised("ValueError")
             ELSE IF Len(df.rows) <= start_row THEN Raised("ValueError")
             ELSE IF valid_rows = <<>> THEN Raised("ValueError")
             ELSE [raise |-> "",
                   course_count |-> Len(valid_rows),
                   course_names |->
                       [k \in 1..Len(valid_rows) |->
                           Strip(str(iloc(df, valid_rows[k], course_name_col)))],
                   course_grades |->
                       [k \in 1..Len(valid_rows) |->
                           iloc(df, valid_rows[k], course_grade_col)],
                   course_credits |->
                       [k \in 1..Len(valid_rows) |->
                           iloc(df, valid_rows[k], course_credit_col)]]

\* ------------------------------------------------------------------------
\* persistence.py: DataPersistence

\* Further Python values: a bool, a list, a dict (d maps its keys to its
\* values) and a numpy integer, which is not an instance of int.
PyBool(b) == [ty |-> "bool", n |-> IF b THEN 1 ELSE 0, s |-> <<>>]
PyList(items) == [ty |-> "list", items |-> items]
PyDict(d) == [ty |-> "dict", d |-> d]
PyInt64(k) == [ty |-> "int64", n |-> k * 10, s |-> <<>>]

\* A finite float of two decimal digits, h being its value in hundredths.
PyFloat2(h) ==
    IF h % 10 = 0 THEN PyFloat(h \div 10)
    ELSE [ty |-> "float2", n |-> h, s |-> <<>>]

\* The text of a file that is no JSON document.
Garbage == [j |-> "garbage"]

\* json.dump(v): the JSON document written for a Python value, by its
\* tokens. An int is written without a decimal point and a float with one,
\* NaN and the infinities by their names.
RECURSIVE dumps(_)
dumps(v) ==
    CASE v.ty = "int" -> [j |-> "int", n |-> v.n]
      [] v.ty = "hugeint" -> [j |-> "bigint"]
      [] v.ty = "float" -> [j |-> "real", n |-> v.n]
      [] v.ty = "float2" -> [j |-> "real2", n |-> v.n]
      [] v.ty = "nan" -> [j |-> "NaN"]
      [] v.ty = "inf" -> [j |-> "Infinity", n |-> v.n]
      [] v.ty = "bool" -> [j |-> "bool", n |-> v.n]
      [] v.ty = "str" -> [j |-> "string", s |-> v.s]
      [] v.ty = "none" -> [j |-> "null"]
      [] v.ty = "list" ->
            [j |-> "array",
             items |-> [i \in 1..Len(v.items) |-> dumps(v.items[i])]]
      [] v.ty = "dict" ->
            [j |-> "object", d |-> [k \in DOMAIN v.d |-> dumps(v.d[k])]]
      [] OTHER -> Garbage

\* json.dump raises TypeError for a value of any other type.
RECURSIVE serializable(_)
serializable(v) ==
    CASE v.ty = "list" -> \A i \in 1..Len(v.items) : serializable(v.items[i])
      [] v.ty = "dict" -> \A k \in DOMAIN v.d : serializable(v.d[k])
      [] OTHER -> v.ty \in {"int", "hugeint", "float", "float2", "nan", "inf",
                            "bool", "str", "none"}

\* json.load(f) of a JSON document.
RECURSIVE loads(_)
loads(doc) ==
    CASE doc.j = "int" -> [ty |-> "int", n |-> doc.n, s |-> <<>>]
      [] doc.j = "bigint" -> PyHugeInt
      [] doc.j = "real" -> PyFloat(doc.n)
      [] doc.j = "real2" -> PyFloat2(doc.n)
      [] doc.j = "NaN" -> PyNaN
      [] doc.j = "Infinity" -> PyInf(doc.n)
      [] doc.j = "bool" -> [ty |-> "bool", n |-> doc.n, s |-> <<>>]
      [] doc.j = "string" -> PyStr(doc.s)
      [] doc.j = "null" -> PyNone
      [] doc.j = "array" ->
            PyList([i \in 1..Len(doc.items) |-> loads(doc.items[i])])
      [] doc.j = "object" -> PyDict([k \in DOMAIN doc.d |-> loads(doc.d[k])])

\* The history file: whether it exists, whether the process may read and
\* write it, and its text.
HistoryFile(exists, readable, writable, content) ==
    [exists |-> exists, readable |-> readable, writable |-> writable,
     content |-> content]

\* isinstance(item, (str, int, float, bool, type(None)))
IsPlain(item) ==
    item.ty \in {"str", "int", "hugeint", "float", "float2", "nan", "inf",
                 "bool", "none"}

\* DataPersistence._prepare_record_for_json on the dict d: an item of a
\* list and a value that are of no JSON type are replaced by their str().
prepare_record_for_json(d) ==
    [key \in DOMAIN d |->
        IF d[key].ty = "list"
        THEN PyList([i \in 1..Len(d[key].items) |->
                        IF IsPlain(d[key].items[i]) THEN d[key].items[i]
                        ELSE PyStr(str(d[key].items[i]))])
        ELSE IF IsPlain(d[key]) \/ d[key].ty = "dict" THEN d[key]
        ELSE PyStr(str(d[key]))]

\* DataPersistence.load_history: it never raises. len(history) in its log
\* message raises TypeError for a number, a bool and None, which is caught.
load_history(f) ==
    IF ~f.exists THEN PyList(<<>>)
    ELSE IF ~f.readable THEN PyList(<<>>)
    ELSE IF f.content = Garbage THEN PyList(<<>>)
    ELSE LET history == loads(f.content)
         IN  IF history.ty \in {"list", "dict", "str"} THEN history
             ELSE PyList(<<>>)

\* len(history) for what load_history returns.
len(history) ==
    CASE history.ty = "list" -> Len(history.items)
      [] history.ty = "dict" -> Cardinality(DOMAIN history.d)
      [] history.ty = "str" -> Len(history.s)

required_keys == {"course_names", "course_grades", "course_credits", "course_count"}

\* history.append(record_data) putting the record in front.
append_in_front(history, record) == PyList(<<record>> \o history.items)

\* history.append(record_data)
append(history, record) == PyList(Append(history.items, record))

\* DataPersistence.save_record(record_data) at the time now: the file and
\* the caller's dict as the call leaves them, the exception raised ("" if
\* none) and the value returned.
save_record(f, r, now) ==
    IF r.ty # "dict"
    THEN [file |-> f, record_data |-> r, raise |-> "TypeError", value |-> PyNone]
    ELSE IF ~(required_keys \subseteq DOMAIN r.d)
    THEN [file |-> f, record_data |-> r, raise |-> "ValueError", value |-> PyNone]
    ELSE LET stamped == [key \in DOMAIN r.d \cup {"timestamp"} |->
                            IF key = "timestamp" THEN PyStr(now) ELSE r.d[key]]
             prepared == PyDict(prepare_record_for_json(stamped))
             history == load_history(f)
             appended == append(history, prepared)
         IN  IF history.ty # "list" \/ ~f.writable
             THEN [file |-> f, record_data |-> prepared, raise |-> "",
                   value |-> PyBool(FALSE)]
             ELSE IF ~serializable(appended)
             THEN [file |-> [f EXCEPT !.exists = TRUE, !.content = Garbage],
                   record_data |-> prepared, raise |-> "",
                   value |-> PyBool(FALSE)]
             ELSE [file |-> [f EXCEPT !.exists = TRUE,
                                      !.content = dumps(appended)],
                   record_data |-> prepared, raise |-> "",
                   value |-> PyBool(TRUE)]

\* isinstance(index, int)
IsInt(index) == index.ty \in {"int", "hugeint", "bool"}

\* 0 <= index < n
InRange(index, n) ==
    /\ index.ty # "hugeint"
    /\ 0 <= index.n
    /\ (IF index.ty = "bool" THEN index.n ELSE index.n \div 10) < n

\* del history[index] always removing the last element.
Without_last(seq, k) == SubSeq(seq, 1, Len(seq) - 1)

\* del history[index]: seq without the element at the 0-based position k.
Without(seq, k) == SubSeq(seq, 1, k) \o SubSeq(seq, k + 2, Len(seq))

\* DataPersistence.get_record_by_index(index): history[index] is outside
\* any try.
get_record_by_index(f, index) ==
    IF ~IsInt(index) THEN [raise |-> "TypeError", value |-> PyNone]
    ELSE LET history == load_history(f)
             k == IF index.ty = "bool" THEN index.n ELSE index.n \div 10
         IN  IF ~InRange(index, len(history))
             THEN [raise |-> "", value |-> PyNone]
             ELSE CASE history.ty = "list" ->
                          [raise |-> "", value |-> history.items[k + 1]]
                    [] history.ty = "str" ->
                          [raise |-> "", value |-> PyStr(<<history.s[k + 1]>>)]
                    [] history.ty = "dict" ->
                          [raise |-> "KeyError", value |-> PyNone]

\* DataPersistence.delete_record(index)
delete_record(f, index) ==
    IF ~IsInt(index)
    THEN [file |-> f, raise |-> "TypeError", value |-> PyNone]
    ELSE LET history == load_history(f)
             k == IF index.ty = "bool" THEN index.n ELSE index.n \div 10
         IN  IF len(history) = 0 \/ ~InRange(index, len(history))
                \/ history.ty # "list" \/ ~f.writable
             THEN [file |-> f, raise |-> "", value |-> PyBool(FALSE)]
             ELSE [file |-> [f EXCEPT !.content =
                                dumps(PyList(Without(history.items, k)))],
                   raise |-> "", value |-> PyBool(TRUE)]

\* DataPersistence.clear_history
clear_history(f) ==
    IF ~f.writable THEN [file |-> f, raise |-> "", value |-> PyBool(FALSE)]
    ELSE [file |-> [f EXCEPT !.exists = TRUE, !.content = dumps(PyList(<<>>))],
          raise |-> "", value |-> PyBool(TRUE)]

\* ------------------------------------------------------------------------
\* The spreadsheets users have

\* A spreadsheet row: an ignored first column, then name, grade, credit.
\* NaN is an empty cell. The last row is a course whose name is the text NA.
SheetRows ==
    { <<PyInt(1), PyStr(<<"M", "a", "t", "h">>), PyInt(72), PyInt(3)>>,
      <<PyInt(2), PyStr(<<" ", "P", "E", " ">>), PyStr(YouXiu), PyNaN>>,
      <<PyInt(3), PyStr(<<"A", "r", "t">>), PyNaN, PyInt(2)>>,
      <<PyNaN, PyStr(<<" ", " ">>), PyInt(60), PyInt(1)>>,
      <<PyNaN, PyNaN, PyInt(85), PyInt(4)>>,
      <<PyInt(6), PyStr(<<"N", "A">>), PyInt(90), PyInt(2)>> }

\* The sheets of a given width: the rows cut to that width.
Sheets(ncols) ==
    UNION {[ncols : {ncols}, rows : [1..k -> {SubSeq(r, 1, ncols) : r \in SheetRows}]]
           : k \in 0..MaxRows}

\* A sheet of a header row, the row below it and one course.
PlainSheet ==
    [ncols |-> 4,
     rows |-> [i \in 1..3 |->
                  <<PyInt(i), PyStr(<<"M", "a", "t", "h">>), PyInt(72), PyInt(3)>>]]

\* The files: every sheet of three or four columns in a readable .xlsx
\* file, and one plain sheet in a file that may be missing, unreadable or
\* of another extension.
Files ==
    [exists : {TRUE}, ext : {".xlsx"}, parses : {TRUE},
     sheet : Sheets(4) \cup Sheets(3)]
    \cup [exists : BOOLEAN, ext : {".xlsx", ".xls", ".csv"}, parses : BOOLEAN,
          sheet : {PlainSheet}]

NoFile == [exists |-> FALSE, ext |-> "", parses |-> FALSE,
           sheet |-> [ncols |-> 0, rows |-> <<>>]]

\* ------------------------------------------------------------------------
\* What callers pass to load_data

\* The course names callers use, in order.
CourseNames ==
    << <<"M", "a", "t", "h">>, <<"P", "E">>, <<"E", "n", "g">>,
       <<"A", "r", "t">>, <<"B", "i", "o">> >>

\* Texts that are decimal literals, each with the number it denotes in
\* tenths: "85", " 72.5 ", "7.", "-3", "150".
NumericTexts ==
    { [s |-> <<"8", "5">>, n |-> 850],
      [s |-> <<" ", "7", "2", ".", "5", " ">>, n |-> 725],
      [s |-> <<"7", ".">>, n |-> 70],
      [s |-> <<"-", "3">>, n |-> -30],
      [s |-> <<"1", "5", "0">>, n |-> 1500] }

\* Texts that are neither a label nor a number: "abc", "", and "优秀 " (a
\* label followed by a blank).
OtherTexts == { <<"a", "b", "c">>, <<>>, <<"you", "xiu", " ">> }

\* Python numbers: 72, 0, 100, 59.9, -5, 120
PlainNumbers ==
    { PyInt(72), PyInt(0), PyInt(100), PyFloat(599), PyInt(-5), PyInt(120) }

\* What is neither text nor a finite number: an empty spreadsheet cell
\* (NaN), the text "nan", the infinities, None, an int too large for a float.
OddValues ==
    { PyNaN, PyStr(<<"n", "a", "n">>), PyInf(1), PyInf(-1), PyNone, PyHugeInt }

\* A grade cell as a caller can hand it over.
RawGrades ==
    PlainNumbers
    \cup {PyStr(t.s) : t \in NumericTexts}
    \cup {PyStr(t) : t \in OtherTexts}
    \cup {PyStr(l) : l \in DOMAIN GRADE_MAPPING}
    \cup OddValues

\* A credit cell as a caller can hand it over.
RawCredits ==
    PlainNumbers
    \cup {PyStr(t.s) : t \in NumericTexts}
    \cup {PyStr(<<"a", "b", "c">>), PyStr(YouXiu)}
    \cup OddValues

\* A course row (grade, credit) of the single-call survey: every raw grade
\* beside an ordinary credit, and every raw credit beside an ordinary grade.
SurveyRows ==
    {<<g, PyInt(3)>> : g \in RawGrades} \cup {<<PyInt(72), c>> : c \in RawCredits}

\* A course row of the calculator's life: an ordinary course, a zero-credit
\* course, an empty row and the two rows with an int too large for a float.
SessionRows ==
    { <<PyInt(95), PyInt(4)>>, <<PyInt(72), PyInt(0)>>, <<PyNaN, PyNaN>>,
      <<PyHugeInt, PyInt(1)>>, <<PyInt(50), PyHugeInt>> }

\* A course row of the metrics: the three courses of the worked example,
\* grades at and beside the pass mark and at the top of the range, a grade
\* with a half point, a course without credits, and rows with NaN and with
\* an infinite credit.
MetricRows ==
    { <<PyInt(95), PyInt(4)>>, <<PyStr(BuJiGe), PyInt(2)>>,
      <<PyInt(72), PyInt(3)>>, <<PyInt(60), PyInt(2)>>,
      <<PyFloat(599), PyInt(3)>>, <<PyInt(100), PyInt(1)>>,
      <<PyFloat(725), PyFloat(25)>>, <<PyInt(85), PyInt(0)>>,
      <<PyNaN, PyInt(2)>>, <<PyInt(72), PyNaN>>, <<PyInt(72), PyInf(1)>> }

RowLists(rows) == UNION {[1..k -> rows] : k \in 0..MaxLen}

Column(rowlist, c) == [i \in 1..Len(rowlist) |-> rowlist[i][c]]

ListArg(items) == [list |-> TRUE, items |-> items]

\* The same items in something that is not a list (a tuple).
TupleArg(items) == [list |-> FALSE, items |-> items]

DropLast(items) == SubSeq(items, 1, Len(items) - 1)

\* The well-formed call built on a list of rows.
WellFormed(rowlist) ==
    [names |-> ListArg(SubSeq(CourseNames, 1, Len(rowlist))),
     grades |-> ListArg(Column(rowlist, 1)),
     credits |-> ListArg(Column(rowlist, 2))]

\* The calls built on a list of rows: the well-formed call, the three with
\* one argument not a list, and the three with one list a row short.
CallsOn(rowlist) ==
    LET whole == WellFormed(rowlist)
    IN  {whole,
         [whole EXCEPT !.names = TupleArg(whole.names.items)],
         [whole EXCEPT !.grades = TupleArg(whole.grades.items)],
         [whole EXCEPT !.credits = TupleArg(whole.credits.items)]}
        \cup (IF rowlist = <<>> THEN {}
              ELSE {[whole EXCEPT !.names = ListArg(DropLast(whole.names.items))],
                    [whole EXCEPT !.grades = ListArg(DropLast(whole.grades.items))],
                    [whole EXCEPT !.credits = ListArg(DropLast(whole.credits.items))]})

\* The ill-formed calls are built on lists of one ordinary course, of every
\* length: validation looks at no cell.
ShapeCalls == UNION {CallsOn(rl) : rl \in RowLists({<<PyInt(95), PyInt(4)>>})}

SessionCalls == {WellFormed(rl) : rl \in RowLists(SessionRows)} \cup ShapeCalls

SurveyCalls == {WellFormed(rl) : rl \in RowLists(SurveyRows)} \cup ShapeCalls

\* The worked example: Math 95 with 4 credits, PE failed with 2 credits,
\* English 72 with 3 credits.
ExampleCall ==
    [names |-> ListArg(<<<<"M", "a", "t", "h">>, <<"P", "E">>,
                         <<"E", "n", "g", "l", "i", "s", "h">>>>),
     grades |-> ListArg(<<PyInt(95), PyStr(BuJiGe), PyInt(72)>>),
     credits |-> ListArg(<<PyInt(4), PyInt(2), PyInt(3)>>)]

MetricCalls == {WellFormed(rl) : rl \in RowLists(MetricRows)} \cup {ExampleCall}

\* Calls load_data refuses: empty lists, and on one course the three with
\* an argument that is no list and the three with one list a row short.
RefusedCalls ==
    {WellFormed(<<>>)}
    \cup (CallsOn(<<(<<PyInt(72), PyInt(3)>>)>>)
              \ {WellFormed(<<(<<PyInt(72), PyInt(3)>>)>>)})

NoCall == [names |-> TupleArg(<<>>), grades |-> TupleArg(<<>>),
           credits |-> TupleArg(<<>>)]

\* ------------------------------------------------------------------------
\* The history files and the calls on the history

\* The dict the GUI builds for one course: lists of str and float, an int
\* count and two float metrics.
RecordA ==
    PyDict([course_names |-> PyList(<<PyStr(<<"M", "a", "t", "h">>)>>),
            course_grades |-> PyList(<<PyFloat(950)>>),
            course_credits |-> PyList(<<PyFloat(40)>>),
            course_count |-> PyInt(1),
            avg_score |-> PyFloat(950),
            overall_gpa |-> PyFloat(45)])

\* A dict of two courses with an int and a NaN grade, a numpy integer among
\* the credits and as the count, and a NaN average.
RecordB ==
    PyDict([course_names |-> PyList(<<PyStr(<<"M", "a", "t", "h">>),
                                      PyStr(<<"P", "E">>)>>),
            course_grades |-> PyList(<<PyInt(72), PyNaN>>),
            course_credits |-> PyList(<<PyFloat(30), PyInt64(2)>>),
            course_count |-> PyInt64(2),
            avg_score |-> PyNaN,
            overall_gpa |-> PyFloat(22)])

\* A dict without course_count.
RecordNoCount ==
    PyDict([course_names |-> PyList(<<PyStr(<<"M", "a", "t", "h">>)>>),
            course_grades |-> PyList(<<PyFloat(950)>>),
            course_credits |-> PyList(<<PyFloat(40)>>)])

\* What callers pass to save_record: the dicts above and a list.
RecordsPassed == {RecordA, RecordB, RecordNoCount, PyList(<<>>)}

\* The readings of the clock, as isoformat() texts.
Timestamps == {<<"t", "1">>, <<"t", "2">>}

\* What callers pass as an index: the ints from -1 to MaxLog and a str.
Indexes == {PyInt(k) : k \in -1..MaxLog} \cup {PyStr(<<"0">>)}

\* The texts a history file is found with: no JSON at all, an empty array,
\* and JSON documents that are no array of records: an empty and a
\* non-empty object, a string, a number, null and an array of numbers.
FoundContents ==
    { Garbage,
      dumps(PyList(<<>>)),
      dumps(PyDict(<<>>)),
      dumps(PyDict([a |-> PyInt(1)])),
      dumps(PyStr(<<"a", "b", "c">>)),
      dumps(PyInt(5)),
      dumps(PyNone),
      dumps(PyList(<<PyInt(1), PyInt(2)>>)) }

\* The history files a run starts with: none, or one of the texts above,
\* in a directory the process may read and write.
HistoryFiles ==
    {HistoryFile(FALSE, TRUE, TRUE, Garbage)}
    \cup {HistoryFile(TRUE, TRUE, TRUE, c) : c \in FoundContents}

\* History files of a run whose directory does not grant everything: an
\* existing file the process may or may not read and write, holding no
\* JSON, an empty array or an array of one record.
GuardedHistoryFiles ==
    {HistoryFile(TRUE, readable, writable, c) :
        readable \in BOOLEAN, writable \in BOOLEAN,
        c \in {Garbage, dumps(PyList(<<>>)), dumps(PyList(<<RecordA>>))}}

\* No history in use.
NoHistoryFile == HistoryFile(FALSE, FALSE, FALSE, Garbage)

NoReply == [op |-> "", arg |-> PyNone, raise |-> "", value |-> PyNone,
            after_save |-> FALSE]

\* No window is open.
NoWindow == [open |-> FALSE]

\* No process is saving.
NoWriters == <<>>

\* main() has not been started.
NoConsole == [pc |-> "off", exit_code |-> -1, said |-> "", ended |-> ""]

\* The files a user of the console gives: the plain sheet in a file that
\* may be missing, unreadable or of another extension, and every sheet of
\* four columns and at most three rows in a readable .xlsx file.
ConsoleFiles ==
    [exists : BOOLEAN, ext : {".xlsx", ".xls", ".csv"}, parses : BOOLEAN,
     sheet : {PlainSheet}]
    \cup [exists : {TRUE}, ext : {".xlsx"}, parses : {TRUE},
          sheet : {s \in Sheets(4) : Len(s.rows) <= 3}]

\* The files a user opens in the window: Math alone; PE graded by a label;
\* Art and Math, whose average needs two decimals; Math without credits;
\* and a file that is not there.
WindowSheets ==
    LET top == <<PyInt(0), PyStr(<<"M", "a", "t", "h">>), PyInt(72), PyInt(3)>>
        Math == <<PyInt(1), PyStr(<<"M", "a", "t", "h">>), PyInt(72), PyInt(3)>>
        PE == <<PyInt(2), PyStr(<<"P", "E">>), PyStr(YouXiu), PyInt(2)>>
        Art == <<PyInt(3), PyStr(<<"A", "r", "t">>), PyInt(85), PyInt(4)>>
        Free == <<PyInt(4), PyStr(<<"M", "a", "t", "h">>), PyInt(72), PyInt(0)>>
    IN  { <<top, top, Math>>, <<top, top, PE>>, <<top, top, Art, Math>>,
          <<top, top, Free>> }

WindowFiles ==
    [exists : {TRUE}, ext : {".xlsx"}, parses : {TRUE},
     sheet : [ncols : {4}, rows : WindowSheets]]
    \cup {[exists |-> FALSE, ext |-> ".xlsx", parses |-> FALSE, sheet |-> PlainSheet]}

\* What the user types at the confirmation prompt.
Confirmations == {"", "1", "y"}

\* ------------------------------------------------------------------------
\* The calls on the calculator

\* The calculator after load_data(a.names, a.grades, a.credits), r being
\* what the call did.
Loading(a, r) ==
    /\ course_names' = r.self.course_names
    /\ course_grades' = r.self.course_grades
    /\ course_credits' = r.self.course_credits
    /\ course_count' = r.self.course_count
    /\ total_credits' = r.self.total_credits
    /\ args' = IF r.raise = "" THEN a ELSE NoCall
    /\ repeat' = (a = args)
    /\ loaded_once' = (loaded_once \/ r.raise = "")

\* calculator.load_data(a.names, a.grades, a.credits)
LoadData(a) ==
    \E r \in {load_data(Self, a.names, a.grades, a.credits)} :
        /\ Loading(a, r)
        /\ last' = [op |-> "load_data", raise |-> r.raise, value |-> PyNone]
        /\ UNCHANGED <<History, Interfaces>>

\* A caller of the running program loads some course lists.
CallLoadData ==
    /\ pending = NoCall
    /\ \E a \in SessionCalls : LoadData(a)
    /\ UNCHANGED <<pending, file, table>>

\* The single prepared call of the survey.
CallPending ==
    /\ pending # NoCall
    /\ last.op = "__init__"
    /\ LoadData(pending)
    /\ UNCHANGED <<pending, file, table>>

\* The prepared courses are loaded into the calculator, once.
CallLoadCourses ==
    /\ pending # NoCall
    /\ ~loaded_once
    /\ LoadData(pending)
    /\ UNCHANGED <<pending, file, table>>

\* data_loader.load_from_excel(file_path), as both user interfaces call it
\* on the file the user chose.
CallLoadFromExcel ==
    /\ table = NoTable
    /\ table' = load_from_excel(file)
    /\ UNCHANGED <<course_names, course_grades, course_credits, course_count,
                   total_credits, last, args, repeat, loaded_once, pending, file>>
    /\ UNCHANGED <<History, Interfaces>>

\* calculator.load_data(course_names, course_grades, course_credits) on
\* the lists the loader returned (ConsoleUI.run).
CallLoadTable ==
    /\ table.raise = ""
    /\ last.op = "__init__"
    /\ LoadData([names |-> ListArg(table.course_names),
                 grades |-> ListArg(table.course_grades),
                 credits |-> ListArg(table.course_credits)])
    /\ UNCHANGED <<pending, file, table>>

Query(op, r) ==
    /\ last' = [op |-> op, raise |-> r.raise, value |-> r.value]
    /\ UNCHANGED <<course_names, course_grades, course_credits, course_count,
                   total_credits, args, repeat, loaded_once, pending, file, table>>
    /\ UNCHANGED <<History, Interfaces>>

CallAverageScore == Query("calculate_average_score", calculate_average_score(Self))

CallCourseGpa == Query("calculate_course_gpa", calculate_course_gpa(Self))

CallOverallGpa == Query("calculate_overall_gpa", calculate_overall_gpa(Self))

InitCalculator ==
    /\ course_names = NewCalculator.course_names
    /\ course_grades = NewCalculator.course_grades
    /\ course_credits = NewCalculator.course_credits
    /\ course_count = NewCalculator.course_count
    /\ total_credits = NewCalculator.total_credits
    /\ last = [op |-> "__init__", raise |-> "", value |-> PyNone]
    /\ args = NoCall
    /\ repeat = FALSE
    /\ loaded_once = FALSE

\* The history is not in use.
NoHistory ==
    /\ history_file = NoHistoryFile
    /\ reply = NoReply
    /\ given = PyNone
    /\ record_data = PyNone

\* No user interface is running and nothing is being saved.
NoInterfaces ==
    /\ console = NoConsole
    /\ window = NoWindow
    /\ writers = NoWriters

\* The calculator over its life: any sequence of loads and queries.
Init ==
    /\ InitCalculator /\ pending = NoCall /\ file = NoFile /\ table = NoTable
    /\ NoHistory /\ NoInterfaces

Next == CallLoadData \/ CallAverageScore \/ CallCourseGpa \/ CallOverallGpa

Spec == Init /\ [][Next]_vars

\* One load_data call on a new calculator, for every call of the survey.
InitSurvey ==
    /\ InitCalculator /\ pending \in SurveyCalls /\ file = NoFile /\ table = NoTable
    /\ NoHistory /\ NoInterfaces

NextSurvey == CallPending

SpecSurvey == InitSurvey /\ [][NextSurvey]_vars

\* A new calculator is given one course list and queried, for every course
\* list of the metrics.
InitMetrics ==
    /\ InitCalculator /\ pending \in MetricCalls /\ file = NoFile /\ table = NoTable
    /\ NoHistory /\ NoInterfaces

NextMetrics ==
    CallLoadCourses \/ CallAverageScore \/ CallCourseGpa \/ CallOverallGpa

SpecMetrics == InitMetrics /\ [][NextMetrics]_vars

\* A caller passes arguments load_data refuses.
CallRefused ==
    /\ pending # NoCall
    /\ \E a \in RefusedCalls : LoadData(a)
    /\ UNCHANGED <<pending, file, table>>

\* A calculator is loaded once, with any of the session's course lists,
\* is queried, and is passed arguments load_data refuses, in any order.
InitRefusal ==
    /\ InitCalculator /\ file = NoFile /\ table = NoTable
    /\ pending \in {WellFormed(rl) : rl \in RowLists(SessionRows)}
    /\ NoHistory /\ NoInterfaces

NextRefusal ==
    \/ CallLoadCourses \/ CallRefused
    \/ CallAverageScore \/ CallCourseGpa \/ CallOverallGpa

SpecRefusal == InitRefusal /\ [][NextRefusal]_vars

\* A spreadsheet file is loaded and its courses are handed to a new
\* calculator, for every file of the model.
InitExcel ==
    /\ InitCalculator /\ pending = NoCall /\ file \in Files /\ table = NoTable
    /\ NoHistory /\ NoInterfaces

NextExcel == CallLoadFromExcel \/ CallLoadTable

SpecExcel == InitExcel /\ [][NextExcel]_vars

\* ------------------------------------------------------------------------
\* The calls on the history

\* The persisted log: the items of the JSON array in the file, if it is one.
Log(f) ==
    IF f.exists /\ f.content # Garbage /\ f.content.j = "array"
    THEN loads(f.content).items
    ELSE <<>>

\* The call and its outcome are noted; after_save says that it follows a
\* save_record that returned True.
Replied(op, arg, r) ==
    reply' = [op |-> op, arg |-> arg, raise |-> r.raise, value |-> r.value,
              after_save |-> (reply.op = "save_record"
                              /\ reply.value = PyBool(TRUE))]

CalculatorUnused ==
    UNCHANGED <<course_names, course_grades, course_credits, course_count,
                total_credits, last, args, repeat, loaded_once, pending,
                file, table, Interfaces>>

\* persistence.save_record(record)
SaveRecord ==
    /\ Len(Log(history_file)) < MaxLog
    /\ \E r \in RecordsPassed, now \in Timestamps :
          \E res \in {save_record(history_file, r, now)} :
              /\ history_file' = res.file
              /\ given' = r
              /\ record_data' = res.record_data
              /\ Replied("save_record", r, res)
    /\ CalculatorUnused

\* persistence.load_history()
LoadHistory ==
    /\ Replied("load_history", PyNone,
               [raise |-> "", value |-> load_history(history_file)])
    /\ UNCHANGED <<history_file, given, record_data>>
    /\ CalculatorUnused

\* persistence.get_record_by_index(index)
GetRecordByIndex ==
    /\ \E index \in Indexes :
          Replied("get_record_by_index", index,
                  get_record_by_index(history_file, index))
    /\ UNCHANGED <<history_file, given, record_data>>
    /\ CalculatorUnused

\* persistence.delete_record(index)
DeleteRecord ==
    /\ \E index \in Indexes :
          \E res \in {delete_record(history_file, index)} :
              /\ history_file' = res.file
              /\ Replied("delete_record", index, res)
    /\ UNCHANGED <<given, record_data>>
    /\ CalculatorUnused

\* persistence.clear_history()
ClearHistory ==
    /\ \E res \in {clear_history(history_file)} :
          /\ history_file' = res.file
          /\ Replied("clear_history", PyNone, res)
    /\ UNCHANGED <<given, record_data>>
    /\ CalculatorUnused

\* The history over its life, from every file a run may find.
InitHistory ==
    /\ InitCalculator /\ pending = NoCall /\ file = NoFile /\ table = NoTable
    /\ history_file \in HistoryFiles
    /\ reply = NoReply
    /\ given = PyNone
    /\ record_data = PyNone
    /\ NoInterfaces

NextHistory ==
    SaveRecord \/ LoadHistory \/ GetRecordByIndex \/ DeleteRecord \/ ClearHistory

SpecHistory == InitHistory /\ [][NextHistory]_vars

\* The same calls on a history file the process may be unable to read or
\* to write.
InitGuarded ==
    /\ InitCalculator /\ pending = NoCall /\ file = NoFile /\ table = NoTable
    /\ history_file \in GuardedHistoryFiles
    /\ reply = NoReply
    /\ given = PyNone
    /\ record_data = PyNone
    /\ NoInterfaces

SpecGuarded == InitGuarded /\ [][NextHistory]_vars

\* ------------------------------------------------------------------------
\* Two save_record calls on one history file, by two users of the same
\* data directory. A call reads the whole file, returns from load_history,
\* and later writes the whole file: nothing holds the file in between.

Writers == {1, 2}

\* A writer before its call.
Called ==
    [pc |-> "called", raise |-> "", value |-> PyNone, record_data |-> PyNone,
     history |-> PyNone]

\* A writer after its call has returned or raised.
Done(me, raise, value) ==
    [me EXCEPT !.pc = "returned", !.raise = raise, !.value = value]

\* datetime.datetime.now().isoformat(): the clock has advanced since the
\* other writer read it.
Now == IF \A v \in Writers : writers[v].record_data.ty # "dict"
       THEN <<"t", "1">> ELSE <<"t", "2">>

\* save_record up to the return of load_history: the checks of the
\* argument, the timestamp, _prepare_record_for_json and the read.
ReadLog(w) ==
    /\ writers[w].pc = "called"
    /\ \E r \in RecordsPassed :
          writers' =
              [writers EXCEPT ![w] =
                  IF r.ty # "dict"
                  THEN Done([@ EXCEPT !.record_data = r], "TypeError", PyNone)
                  ELSE IF ~(required_keys \subseteq DOMAIN r.d)
                  THEN Done([@ EXCEPT !.record_data = r], "ValueError", PyNone)
                  ELSE [@ EXCEPT
                          !.pc = "read",
                          !.record_data =
                              PyDict(prepare_record_for_json(
                                  [key \in DOMAIN r.d \cup {"timestamp"} |->
                                      IF key = "timestamp" THEN PyStr(Now)
                                      ELSE r.d[key]])),
                          !.history = load_history(history_file)]]
    /\ UNCHANGED <<History, console, window>>
    /\ UNCHANGED <<course_names, course_grades, course_credits, course_count,
                   total_credits, last, args, repeat, loaded_once, pending,
                   file, table>>

\* The rest of save_record, writing over the file the log the writer read
\* and now reads again with its record appended.
WriteLog_rereading(w) ==
    /\ writers[w].pc = "read"
    /\ \E me \in {writers[w]} :
          \E history \in {load_history(history_file)} :
              IF history.ty # "list" \/ ~history_file.writable
              THEN /\ writers' = [writers EXCEPT ![w] = Done(me, "", PyBool(FALSE))]
                   /\ UNCHANGED history_file
              ELSE IF ~serializable(append(history, me.record_data))
              THEN /\ writers' = [writers EXCEPT ![w] = Done(me, "", PyBool(FALSE))]
                   /\ history_file' = [history_file EXCEPT !.exists = TRUE,
                                                           !.content = Garbage]
              ELSE /\ writers' = [writers EXCEPT ![w] = Done(me, "", PyBool(TRUE))]
                   /\ history_file' =
                          [history_file EXCEPT
                              !.exists = TRUE,
                              !.content = dumps(append(history, me.record_data))]
    /\ UNCHANGED <<reply, given, record_data, console, window>>
    /\ UNCHANGED <<course_names, course_grades, course_credits, course_count,
                   total_credits, last, args, repeat, loaded_once, pending,
                   file, table>>

\* The rest of save_record: history.append, open(..., 'w') and json.dump of
\* the log the writer read, and the value returned. The file is opened,
\* written and closed in one step.
WriteLog(w) ==
    /\ writers[w].pc = "read"
    /\ \E me \in {writers[w]} :
          IF me.history.ty # "list" \/ ~history_file.writable
          THEN /\ writers' = [writers EXCEPT ![w] = Done(me, "", PyBool(FALSE))]
               /\ UNCHANGED history_file
          ELSE IF ~serializable(append(me.history, me.record_data))
          THEN /\ writers' = [writers EXCEPT ![w] = Done(me, "", PyBool(FALSE))]
               /\ history_file' = [history_file EXCEPT !.exists = TRUE,
                                                       !.content = Garbage]
          ELSE /\ writers' = [writers EXCEPT ![w] = Done(me, "", PyBool(TRUE))]
               /\ history_file' =
                      [history_file EXCEPT
                          !.exists = TRUE,
                          !.content = dumps(append(me.history, me.record_data))]
    /\ UNCHANGED <<reply, given, record_data, console, window>>
    /\ UNCHANGED <<course_names, course_grades, course_credits, course_count,
                   total_credits, last, args, repeat, loaded_once, pending,
                   file, table>>

\* The history files two writers start from: those of HistoryFiles and a
\* log of one record.
WriterFiles ==
    HistoryFiles \cup {HistoryFile(TRUE, TRUE, TRUE, dumps(PyList(<<RecordA>>)))}

\* Two writers, each about to call save_record once.
InitWriters ==
    /\ InitCalculator /\ pending = NoCall /\ file = NoFile /\ table = NoTable
    /\ history_file \in WriterFiles
    /\ reply = NoReply
    /\ given = PyNone
    /\ record_data = PyNone
    /\ console = NoConsole /\ window = NoWindow
    /\ writers = [w \in Writers |-> Called]

NextWriters == \E w \in Writers : ReadLog(w) \/ WriteLog(w)

SpecWriters == InitWriters /\ [][NextWriters]_vars

\* ------------------------------------------------------------------------
\* main.py: main, and console_ui.py: ConsoleUI.run
\*
\* console.pc is where the program stands: "main" before main() runs,
\* "path" at the prompt of _get_file_path, "confirm" at the prompt of
\* _confirm_data, "wait" at the prompt of _wait_for_exit, "window" while the
\* Qt event loop runs, "exited" when the process has ended with exit_code.
\* console.ended says why it ended, console.said what the user did last.

Exited(code, why) ==
    [pc |-> "exited", exit_code |-> code, said |-> console.said, ended |-> why]

At(pc, said) ==
    [pc |-> pc, exit_code |-> -1, said |-> said, ended |-> ""]

\* What stays as it is while main() runs without touching the calculator.
ConsoleOnly ==
    UNCHANGED <<course_names, course_grades, course_credits, course_count,
                total_credits, last, args, repeat, loaded_once, pending,
                History, window, writers>>

\* main() up to the first prompt. logs: setup_logger can create its
\* directory and file; store: DataPersistence() finds or creates its
\* directory; GUI_AVAILABLE: PyQt5 imports. When setup_logger raises, the
\* handler at line 126 uses the unassigned local logger, main() raises
\* UnboundLocalError and the interpreter exits with status 1.
Main ==
    /\ console.pc = "main"
    /\ \E logs \in BOOLEAN, store \in BOOLEAN, GUI_AVAILABLE \in BOOLEAN,
          args_console \in BOOLEAN, args_gui \in BOOLEAN :
          console' =
              IF ~logs THEN Exited(1, "startup")
              ELSE IF ~store THEN Exited(1, "startup")
              ELSE IF args_console THEN At("path", "")
              ELSE IF args_gui /\ GUI_AVAILABLE THEN At("window", "")
              ELSE IF args_gui THEN Exited(1, "startup")
              ELSE IF GUI_AVAILABLE THEN At("window", "")
              ELSE At("path", "")
    /\ UNCHANGED <<file, table>>
    /\ ConsoleOnly

\* GUIApplication.run ends in sys.exit(app.exec_()): the user closes the
\* window and the process exits with the status of the event loop.
CloseWindow ==
    /\ console.pc = "window"
    /\ console' = Exited(0, "normal")
    /\ UNCHANGED <<file, table>>
    /\ ConsoleOnly

\* ConsoleUI.run from the file prompt to the next prompt: the user gives
\* the path of f.
GetFilePath ==
    /\ console.pc = "path"
    /\ \E f \in ConsoleFiles :
          /\ file' = f
          /\ IF ~f.exists \/ f.ext \notin {".xlsx", ".xls"}
             THEN /\ table' = NoTable
                  /\ console' = At("path", "path")
             ELSE \E r \in {load_from_excel(f)} :
                      /\ table' = r
                      /\ console' = IF r.raise = "" THEN At("confirm", "path")
                                    ELSE At("path", "path")
    /\ ConsoleOnly

\* ConsoleUI.run from the confirmation prompt on, loading the courses
\* whatever the user answers.
ConfirmData_unasked ==
    /\ console.pc = "confirm"
    /\ \E confirm \in Confirmations :
          \E a \in {[names |-> ListArg(table.course_names),
                     grades |-> ListArg(table.course_grades),
                     credits |-> ListArg(table.course_credits)]} :
              \E r \in {load_data(Self, a.names, a.grades, a.credits)} :
                  /\ Loading(a, r)
                  /\ last' = [op |-> "load_data", raise |-> r.raise,
                              value |-> PyNone]
                  /\ console' = IF r.raise = "" THEN At("wait", confirm)
                                ELSE At("path", confirm)
    /\ UNCHANGED <<pending, file, table, History, window, writers>>

\* ConsoleUI.run from the confirmation prompt on: "1" goes back to the
\* file prompt, the empty input loads the courses into the calculator,
\* shows the three metrics and leaves the loop, anything else asks again.
\* An exception of load_data goes back to the file prompt, by line 84 or
\* by the handler at line 98.
ConfirmData ==
    /\ console.pc = "confirm"
    /\ \E confirm \in Confirmations :
          IF confirm = ""
          THEN \E a \in {[names |-> ListArg(table.course_names),
                          grades |-> ListArg(table.course_grades),
                          credits |-> ListArg(table.course_credits)]} :
                   \E r \in {load_data(Self, a.names, a.grades, a.credits)} :
                       /\ Loading(a, r)
                       /\ last' = [op |-> "load_data", raise |-> r.raise,
                                   value |-> PyNone]
                       /\ console' = IF r.raise = "" THEN At("wait", confirm)
                                     ELSE At("path", confirm)
          ELSE /\ console' = IF confirm = "1" THEN At("path", confirm)
                             ELSE At("confirm", confirm)
               /\ UNCHANGED <<course_names, course_grades, course_credits,
                              course_count, total_credits, last, args, repeat,
                              loaded_once>>
    /\ UNCHANGED <<pending, file, table, History, window, writers>>

\* The user presses Ctrl-C at a prompt. Inside the loop of run the handler
\* at line 103 returns from run and main() goes on to return 0; at the
\* prompt of _wait_for_exit the exception reaches main(), which returns 130.
KeyboardInterrupt ==
    /\ console.pc \in {"path", "confirm", "wait"}
    /\ console' = [Exited(IF console.pc = "wait" THEN 130 ELSE 0, "interrupt")
                      EXCEPT !.said = "^C"]
    /\ UNCHANGED <<file, table>>
    /\ ConsoleOnly

\* The input ends (EOFError from input()). Inside the loop the handler at
\* line 108 goes round again; at the prompt of _wait_for_exit the
\* exception reaches main(), which returns 1.
EOFError ==
    /\ console.pc \in {"path", "confirm", "wait"}
    /\ console' = IF console.pc = "wait"
                  THEN [Exited(1, "error") EXCEPT !.said = "^D"]
                  ELSE At("path", "^D")
    /\ UNCHANGED <<file, table>>
    /\ ConsoleOnly

\* _wait_for_exit: the user presses Enter, run returns and main() returns 0.
WaitForExit ==
    /\ console.pc = "wait"
    /\ console' = [Exited(0, "normal") EXCEPT !.said = ""]
    /\ UNCHANGED <<file, table>>
    /\ ConsoleOnly

InitConsole ==
    /\ InitCalculator /\ pending = NoCall /\ file = NoFile /\ table = NoTable
    /\ NoHistory
    /\ console = At("main", "")
    /\ window = NoWindow
    /\ writers = NoWriters

NextConsole ==
    \/ Main \/ CloseWindow \/ GetFilePath \/ ConfirmData
    \/ KeyboardInterrupt \/ EOFError \/ WaitForExit

SpecConsole == InitConsole /\ [][NextConsole]_vars

\* ------------------------------------------------------------------------
\* gui.py: MainWindow
\*
\* window holds the fields of MainWindow the handlers read and write: its
\* own course lists (as the loader returned them), the texts of the two
\* result labels (by the float they spell; "--" before any calculation),
\* whether the calculate and the save buttons are enabled, the handler
\* that ran last (did) and whether it ended in an error box (failed).

\* The text "--" of a label before any calculation.
Dashes == PyStr(<<"-", "-">>)

\* MainWindow.__init__
NewWindow ==
    [open |-> TRUE, course_count |-> 0, course_names |-> <<>>,
     course_grades |-> <<>>, course_credits |-> <<>>,
     avg_score_label |-> Dashes, overall_gpa_label |-> Dashes,
     calculate_enabled |-> FALSE, save_enabled |-> FALSE,
     did |-> "__init__", failed |-> FALSE]

\* The floats f"{avg_score:.2f}" can spell for a returned average: the
\* quotient rounded to two decimals, either neighbour on a tie.
Format2f(avg) ==
    IF avg.ty = "ratio"
    THEN LET r == round(10 * avg.num, avg.den, FALSE)
         IN  {PyFloat2(h) : h \in r.lo..r.hi}
    ELSE {avg}

\* The floats f"{overall_gpa}" can spell for a returned grade point average.
FormatGpa(gpa) ==
    IF gpa.ty = "rounded" THEN {PyFloat(g) : g \in gpa.lo..gpa.hi} ELSE {gpa}

\* float(label.text())
LabelFloat(label) ==
    IF label = Dashes THEN [raise |-> "ValueError", value |-> PyNone]
    ELSE [raise |-> "", value |-> label]

\* [float(x) for x in items]: the list, or the first exception.
RECURSIVE Floats(_)
Floats(items) ==
    IF items = <<>> THEN [raise |-> "", values |-> <<>>]
    ELSE LET f == float(Head(items))
             rest == Floats(Tail(items))
         IN  IF f.raise # "" THEN [raise |-> f.raise, values |-> <<>>]
             ELSE IF rest.raise # "" THEN rest
             ELSE [raise |-> "", values |-> <<f.value>> \o rest.values]

\* MainWindow.load_file(file_path), from the file dialog.
LoadFile ==
    /\ window.open
    /\ \E f \in WindowFiles :
          \E r \in {load_from_excel(f)} :
              /\ file' = f
              /\ table' = r
              /\ window' =
                    IF r.raise = ""
                    THEN [window EXCEPT !.course_count = r.course_count,
                                        !.course_names = r.course_names,
                                        !.course_grades = r.course_grades,
                                        !.course_credits = r.course_credits,
                                        !.calculate_enabled = TRUE,
                                        !.did = "load_file", !.failed = FALSE]
                    ELSE [window EXCEPT !.did = "load_file", !.failed = TRUE]
    /\ UNCHANGED <<course_names, course_grades, course_credits, course_count,
                   total_credits, last, args, repeat, loaded_once, pending,
                   History, console, writers>>

\* MainWindow._calculate_gpa: load_data on the window's lists, then the
\* three metrics; the labels and the save button change only when all of
\* them returned.
CalculateGpa ==
    /\ window.open /\ window.calculate_enabled
    /\ \E a \in {[names |-> ListArg(window.course_names),
                   grades |-> ListArg(window.course_grades),
                   credits |-> ListArg(window.course_credits)]} :
          \E r \in {load_data(Self, a.names, a.grades, a.credits)} :
              /\ Loading(a, r)
              /\ IF r.raise # ""
                 THEN /\ last' = [op |-> "load_data", raise |-> r.raise,
                                  value |-> PyNone]
                      /\ window' = [window EXCEPT !.did = "_calculate_gpa",
                                                  !.failed = TRUE]
                 ELSE \E avg \in {calculate_average_score(r.self)},
                         gpa \in {calculate_overall_gpa(r.self)} :
                          IF avg.raise # "" \/ gpa.raise # ""
                          THEN /\ last' = IF avg.raise # ""
                                          THEN [op |-> "calculate_average_score",
                                                raise |-> avg.raise,
                                                value |-> PyNone]
                                          ELSE [op |-> "calculate_overall_gpa",
                                                raise |-> gpa.raise,
                                                value |-> PyNone]
                               /\ window' = [window EXCEPT
                                                !.avg_score_label =
                                                    IF avg.raise = ""
                                                    THEN CHOOSE x \in Format2f(avg.value) : TRUE
                                                    ELSE @,
                                                !.did = "_calculate_gpa",
                                                !.failed = TRUE]
                          ELSE /\ last' = [op |-> "calculate_overall_gpa",
                                           raise |-> "", value |-> gpa.value]
                               /\ \E x \in Format2f(avg.value),
                                     g \in FormatGpa(gpa.value) :
                                      window' = [window EXCEPT
                                                   !.avg_score_label = x,
                                                   !.overall_gpa_label = g,
                                                   !.save_enabled = TRUE,
                                                   !.did = "_calculate_gpa",
                                                   !.failed = FALSE]
    /\ UNCHANGED <<pending, file, table, History, console, writers>>

\* The dict MainWindow._save_record builds, or the exception of a float().
WindowRecord ==
    LET grades == Floats(window.course_grades)
        credits == Floats(window.course_credits)
        avg == LabelFloat(window.avg_score_label)
        gpa == LabelFloat(window.overall_gpa_label)
        failure == CHOOSE e \in {grades.raise, credits.raise, avg.raise, gpa.raise} :
                       e # ""
    IN  IF grades.raise = "" /\ credits.raise = "" /\ avg.raise = "" /\ gpa.raise = ""
        THEN [raise |-> "",
              record |->
                  PyDict([course_names |->
                              PyList([i \in 1..Len(window.course_names) |->
                                         PyStr(window.course_names[i])]),
                          course_grades |-> PyList(grades.values),
                          course_credits |-> PyList(credits.values),
                          course_count |-> PyInt(window.course_count),
                          avg_score |-> avg.value,
                          overall_gpa |-> gpa.value])]
        ELSE [raise |-> failure, record |-> PyNone]

\* MainWindow._save_record, from the save button or the menu: the record is
\* built and handed to save_record; any exception ends in an error box.
ClickSave ==
    /\ window.open /\ window.save_enabled
    /\ Len(Log(history_file)) < MaxLog
    /\ \E built \in {WindowRecord}, now \in {<<"t", "1">>} :
          IF built.raise # ""
          THEN /\ window' = [window EXCEPT !.did = "_save_record", !.failed = TRUE]
               /\ UNCHANGED History
          ELSE \E res \in {save_record(history_file, built.record, now)} :
                   /\ history_file' = res.file
                   /\ given' = built.record
                   /\ record_data' = res.record_data
                   /\ Replied("save_record", built.record, res)
                   /\ window' = [window EXCEPT
                                    !.did = "_save_record",
                                    !.failed = (res.value # PyBool(TRUE))]
    /\ UNCHANGED <<course_names, course_grades, course_credits, course_count,
                   total_credits, last, args, repeat, loaded_once, pending,
                   file, table, console, writers>>

InitWindow ==
    /\ InitCalculator /\ pending = NoCall /\ file = NoFile /\ table = NoTable
    /\ history_file = HistoryFile(FALSE, TRUE, TRUE, Garbage)
    /\ reply = NoReply /\ given = PyNone /\ record_data = PyNone
    /\ console = NoConsole
    /\ window = NewWindow
    /\ writers = NoWriters

NextWindow == LoadFile \/ CalculateGpa \/ ClickSave

SpecWindow == InitWindow /\ [][NextWindow]_vars

\* ------------------------------------------------------------------------
\* Properties

\* The latest call was a load_data that returned.
Returned == last.op = "load_data" /\ last.raise = ""

\* A number in [0, 100].
InGradeRange(v) == IsFinite(v) /\ 0 <= v.n /\ v.n <= 1000

\* A number >= 0.
NonNegative(v) == (IsFinite(v) /\ v.n >= 0) \/ (v.ty = "inf" /\ v.n > 0)

\* a == b as Python compares numbers (95 == 95.0), a NaN taken as equal to
\* a NaN.
NumSame(a, b) ==
    \/ IsFinite(a) /\ IsFinite(b) /\ a.n = b.n
    \/ a.ty = b.ty /\ a.ty \in {"nan", "inf"} /\ a.n = b.n

\* The three arguments are lists of one length, not 0.
WellShaped(a) ==
    /\ a.names.list /\ a.grades.list /\ a.credits.list
    /\ Len(a.names.items) = Len(a.grades.items)
    /\ Len(a.grades.items) = Len(a.credits.items)
    /\ Len(a.names.items) > 0

Queries == {"calculate_average_score", "calculate_course_gpa", "calculate_overall_gpa"}

\* C1: after a load_data call that returned, every entry of course_grades
\* is a number in [0, 100], whatever the raw grades were.
C1_GradesInRange ==
    Returned => \A i \in 1..Len(course_grades) : InGradeRange(course_grades[i])

\* C2: load_data maps the labels 优秀, 良好, 中等, 及格, 不及格 to 95, 85, 75,
\* 65, 0 and keeps a number, or a text that denotes a number, within
\* [0, 100] at its own value.
C2_LabelsAndNumbers ==
    Returned =>
        \A i \in 1..Len(args.grades.items) :
            LET g == args.grades.items[i]
                out == course_grades[i]
            IN  /\ g = PyStr(YouXiu) => out = PyInt(95)
                /\ g = PyStr(LiangHao) => out = PyInt(85)
                /\ g = PyStr(ZhongDeng) => out = PyInt(75)
                /\ g = PyStr(JiGe) => out = PyInt(65)
                /\ g = PyStr(BuJiGe) => out = PyInt(0)
                /\ InGradeRange(g) => IsFinite(out) /\ out.n = g.n
                /\ \A t \in NumericTexts :
                       (g = PyStr(t.s) /\ 0 <= t.n /\ t.n <= 1000)
                           => IsFinite(out) /\ out.n = t.n

\* C2 witness: a returned load whose grades hold the label 及格 and the
\* numeric text " 72.5 ".
C2_Witness ==
    /\ Returned
    /\ \E i, j \in 1..Len(args.grades.items) :
           /\ args.grades.items[i] = PyStr(JiGe)
           /\ args.grades.items[j] = PyStr(<<" ", "7", "2", ".", "5", " ">>)
           /\ course_grades[j] = PyFloat(725)

\* C3: after a load_data call that returned, every entry of course_credits
\* is a number >= 0, and a credit that was negative, not numeric or missing
\* is 0.
C3_CreditsNonNegative ==
    Returned =>
        \A i \in 1..Len(course_credits) :
            LET c == args.credits.items[i]
            IN  /\ NonNegative(course_credits[i])
                /\ (c.ty \in {"nan", "none"} \/ NumLt(c, 0)
                    \/ c \in {PyStr(<<"a", "b", "c">>), PyStr(YouXiu)})
                       => NumIsZero(course_credits[i])

\* C4: a frame row with a name and an empty grade or credit cell is among
\* the rows load_from_excel returns, and once the returned lists went
\* through load_data the grade (the credit) of that course is 0.
C4_MissingCellsBecomeZero ==
    (table.raise = "" /\ Returned) =>
        LET df == read_excel(file.sheet)
        IN  \A i \in start_row..(Len(df.rows) - 1) :
                LET name == iloc(df, i, course_name_col)
                    grade == iloc(df, i, course_grade_col)
                    credit == iloc(df, i, course_credit_col)
                IN  (/\ notna(name) /\ Strip(str(name)) # <<>>
                     /\ (grade.ty = "nan" \/ credit.ty = "nan"))
                    => \E k \in 1..course_count :
                           /\ course_names[k] = Strip(str(name))
                           /\ table.course_grades[k] = grade
                           /\ table.course_credits[k] = credit
                           /\ grade.ty = "nan" => NumIsZero(course_grades[k])
                           /\ credit.ty = "nan" => NumIsZero(course_credits[k])

\* C5: load_data raises TypeError when an argument is not a list, ValueError
\* when the lists differ in length or are empty, and returns for every
\* three lists of one length that is not 0.
C5_Validation ==
    last.op = "load_data" =>
        /\ ~(pending.names.list /\ pending.grades.list /\ pending.credits.list)
               => last.raise = "TypeError"
        /\ (/\ pending.names.list /\ pending.grades.list /\ pending.credits.list
            /\ \/ Len(pending.names.items) # Len(pending.grades.items)
               \/ Len(pending.grades.items) # Len(pending.credits.items)
               \/ Len(pending.names.items) = 0)
               => last.raise = "ValueError"
        /\ WellShaped(pending) => last.raise = ""

\* C6: for lists of one length that is not 0, load_data raises nothing
\* whatever the cells hold, and a course whose own grade is a number in
\* [0, 100] and whose own credit is a number >= 0 keeps them.
C6_NoCellAborts ==
    (last.op = "load_data" /\ WellShaped(pending)) =>
        /\ last.raise = ""
        /\ \A i \in 1..Len(pending.names.items) :
               LET g == pending.grades.items[i]
                   c == pending.credits.items[i]
               IN  /\ InGradeRange(g) => NumSame(course_grades[i], g)
                   /\ (IsFinite(c) /\ c.n >= 0) => NumSame(course_credits[i], c)

\* C7: once a load_data call has returned, in every later state
\* len(course_names) == len(course_grades) == len(course_credits) ==
\* course_count > 0.
C7_LengthsAgree ==
    loaded_once =>
        /\ Len(course_names) = course_count
        /\ Len(course_grades) = course_count
        /\ Len(course_credits) = course_count
        /\ course_count > 0

\* C8: in every state total_credits is the sum of the course_credits held.
C8_TotalIsSum == NumSame(total_credits, PySum(course_credits))

\* C9: a load_data call that returns and repeats the arguments of the
\* load_data call before it, which returned too, leaves names, grades,
\* credits, course_count and total_credits as that call left them.
C9_Idempotent ==
    [][(last'.op = "load_data" /\ last'.raise = "" /\ repeat')
           => CourseSet' = CourseSet]_vars

\* C9 witness: a second load_data with the same two courses has returned.
C9_Witness ==
    Returned /\ repeat /\ course_count > 1 /\ Len(course_credits) = course_count

RECURSIVE SumTo(_, _)
SumTo(f, k) == IF k = 0 THEN 0 ELSE SumTo(f, k - 1) + f[k]

\* The number of pairs zip(course_grades, course_credits) yields.
Pairs ==
    IF Len(course_grades) < Len(course_credits) THEN Len(course_grades)
    ELSE Len(course_credits)

\* Every stored grade and credit a query pairs is a finite number.
AllFinite ==
    \A i \in 1..Pairs : IsFinite(course_grades[i]) /\ IsFinite(course_credits[i])

\* The latest call was this query, on a loaded calculator whose
\* total_credits is greater than zero.
Asked(op) ==
    /\ last.op = op
    /\ course_count > 0
    /\ NumGt(total_credits, 0)


\* C11: with data loaded and total_credits > 0, calculate_average_score
\* returns the sum of adj[i] * credit[i] divided by total_credits, where
\* adj[i] is 40 for a stored grade below 60 and the stored grade otherwise
\* (a grade of exactly 60 is kept). With a NaN or infinite operand the
\* float formula gives no finite number, and neither does the call.
C11_AverageScore ==
    Asked("calculate_average_score") =>
        /\ last.raise = ""
        /\ IF AllFinite /\ IsFinite(total_credits)
           THEN LET weighted ==
                        [i \in 1..Pairs |->
                            (IF course_grades[i].n < 600 THEN 400
                             ELSE course_grades[i].n) * course_credits[i].n]
                IN  /\ last.value.ty = "ratio"
                    /\ last.value.num * (total_credits.n * 10)
                           = last.value.den * SumTo(weighted, Pairs)
           ELSE last.value.ty \in {"nan", "inf"}

\* An average was returned for courses with a grade of exactly 60, a grade
\* below 60 and credits on both.
C11_Witness ==
    /\ Asked("calculate_average_score")
    /\ AllFinite
    /\ last.value.ty = "ratio"
    /\ \E i, j \in 1..Pairs :
           /\ course_grades[i].n = 600 /\ course_credits[i].n > 0
           /\ course_grades[j].n < 600 /\ course_credits[j].n > 0

\* x tenths is num / den (with den > 0) rounded to one decimal: the nearest
\* tenth, either neighbour where the two are equally near.
NearestTenth(x, num, den) ==
    /\ 2 * (x * den - 10 * num) <= den
    /\ 2 * (10 * num - x * den) <= den

\* The grade point the formula gives for a stored grade: 0.0 below 60,
\* grade / 10 - 5 rounded to one decimal from 60 to 100.
GradePointOf(gpa, grade) ==
    /\ gpa.ty = "rounded"
    /\ (IsFinite(grade) /\ grade.n < 600) => (gpa.lo = 0 /\ gpa.hi = 0)
    /\ (IsFinite(grade) /\ grade.n >= 600 /\ grade.n <= 1000) =>
           /\ NearestTenth(gpa.lo, grade.n - 500, 100)
           /\ NearestTenth(gpa.hi, grade.n - 500, 100)
           /\ (grade.n % 10 # 5) => gpa.lo = gpa.hi
    /\ (IsFinite(grade) /\ grade.n = 600) => (gpa.lo = 10 /\ gpa.hi = 10)
    /\ (IsFinite(grade) /\ grade.n = 1000) => (gpa.lo = 50 /\ gpa.hi = 50)

\* C12: calculate_course_gpa returns one grade point per loaded course, in
\* order: 0.0 for a stored grade below 60 and grade / 10 - 5 rounded to one
\* decimal for a grade from 60 to 100 (60 gives 1.0, 100 gives 5.0, 59.9
\* gives 0.0).
C12_OnePerCourse ==
    (last.op = "calculate_course_gpa" /\ last.raise = "") =>
        /\ Len(last.value) = course_count
        /\ \A i \in 1..Len(last.value) :
               /\ i <= Len(course_grades)
               /\ GradePointOf(last.value[i], course_grades[i])

\* The grade points of a complete course list follow the formula: with
\* as many stored grades as courses, C12 holds.
C12_FormulaOnCompleteLists ==
    (Len(course_grades) = course_count) => C12_OnePerCourse

\* C13: with data loaded and total_credits > 0, calculate_overall_gpa
\* returns the sum of gpa[i] * credit[i] divided by total_credits and
\* rounded to one decimal, gpa being the list calculate_course_gpa returns.
\* With a NaN or infinite credit the float formula gives no finite number,
\* and neither does the call.
C13_OverallGpa ==
    Asked("calculate_overall_gpa") =>
        /\ last.raise = ""
        /\ LET gpa == calculate_course_gpa(Self).value
               n == IF Len(gpa) < Len(course_credits) THEN Len(gpa)
                    ELSE Len(course_credits)
               lows == [i \in 1..n |-> gpa[i].lo * course_credits[i].n]
               highs == [i \in 1..n |-> gpa[i].hi * course_credits[i].n]
           IN  IF IsFinite(total_credits)
                  /\ \A i \in 1..n : IsFinite(course_credits[i])
               THEN /\ last.value.ty = "rounded"
                    /\ NearestTenth(last.value.lo, SumTo(lows, n),
                                    10 * total_credits.n)
                    /\ NearestTenth(last.value.hi, SumTo(highs, n),
                                    10 * total_credits.n)
               ELSE last.value.ty \in {"nan", "inf"}

\* An overall grade point was returned for courses of different credits
\* and grade points whose weighted mean had to be rounded.
C13_Witness ==
    /\ Asked("calculate_overall_gpa")
    /\ AllFinite
    /\ last.value.ty = "rounded"
    /\ last.value.lo = last.value.hi
    /\ LET gpa == calculate_course_gpa(Self).value
       IN  /\ \E i, j \in 1..course_count :
                  /\ gpa[i].lo # gpa[j].lo
                  /\ course_credits[i].n # course_credits[j].n
                  /\ course_credits[i].n > 0 /\ course_credits[j].n > 0
           /\ SumTo([i \in 1..course_count |-> gpa[i].lo * course_credits[i].n],
                    course_count) # last.value.lo * total_credits.n

\* The courses of the worked example are loaded.
ExampleLoaded == pending = ExampleCall /\ loaded_once

\* num / den is x hundredths when rounded to two decimals.
TwoDecimals(x, num, den) ==
    /\ 2 * (x * den - 100 * num) <= den
    /\ 2 * (100 * num - x * den) <= den

\* C14, as stated: for Math 95 with 4 credits, PE failed with 2 credits
\* and English 72 with 3 credits, the average uses the adjusted grades
\* [95, 40, 72] and calculate_average_score returns 68.44.
C14_ExampleAverage6844 ==
    (ExampleLoaded /\ last.op = "calculate_average_score") =>
        /\ last.raise = ""
        /\ adjusted_grades(Self) = <<PyFloat(950), PyInt(40), PyFloat(720)>>
        /\ last.value.ty = "ratio"
        /\ TwoDecimals(6844, last.value.num, last.value.den)

\* C14, amended: for the same courses the average uses the adjusted grades
\* [95, 40, 72] and calculate_average_score returns
\* (95 * 4 + 40 * 2 + 72 * 3) / 9 = 676 / 9 = 75.11 to two decimals.
C14_ExampleAverage7511 ==
    (ExampleLoaded /\ last.op = "calculate_average_score") =>
        /\ last.raise = ""
        /\ adjusted_grades(Self) = <<PyFloat(950), PyInt(40), PyFloat(720)>>
        /\ last.value.ty = "ratio"
        /\ last.value.num * 9 = last.value.den * 676
        /\ TwoDecimals(7511, last.value.num, last.value.den)

\* The average of the worked example was asked for.
C14_Witness ==
    /\ ExampleLoaded
    /\ last.op = "calculate_average_score"
    /\ last.raise = ""

\* C15: for the same courses the stored grades are [95, 0, 72],
\* total_credits is 9, calculate_course_gpa returns [4.5, 0.0, 2.2] and
\* calculate_overall_gpa returns 2.7.
C15_ExampleGpa ==
    ExampleLoaded =>
        /\ Len(course_grades) = 3
        /\ NumSame(course_grades[1], PyInt(95))
        /\ NumSame(course_grades[2], PyInt(0))
        /\ NumSame(course_grades[3], PyInt(72))
        /\ NumSame(total_credits, PyInt(9))
        /\ last.op = "calculate_course_gpa" =>
               last.value = <<Rounded(45, 45), Rounded(0, 0), Rounded(22, 22)>>
        /\ last.op = "calculate_overall_gpa" => last.value = Rounded(27, 27)

\* The overall grade point of the worked example was asked for.
C15_Witness ==
    /\ ExampleLoaded
    /\ last.op = "calculate_overall_gpa"
    /\ last.raise = ""

\* Empty and Loaded, the two states of the calculator.
Empty == course_count = 0
Loaded == course_count > 0

\* A step of the calculator keeps to the state machine: Empty until a
\* load_data has returned and Loaded from then on; a query changes no field
\* of the course set, and a query repeated at once returns the same result.
LifecycleStep ==
    /\ loaded_once' <=> Loaded'
    /\ Loaded => Loaded'
    /\ last'.op \in Queries => UNCHANGED CourseSet
    /\ (last.op \in Queries /\ last'.op = last.op) => last' = last

\* C16: the calculator starts Empty (course_count == 0), becomes Loaded on
\* the first load_data that succeeds and is Loaded in every later state: no
\* query and no failed load_data returns it to Empty; the three queries
\* leave every field of the course set unchanged, so a repeated query
\* returns the same result.
C16_Lifecycle == Empty /\ [][LifecycleStep]_vars

\* What holds of C16 whatever a failed load_data leaves behind: a
\* successful load_data makes the calculator Loaded, nothing returns it to
\* Empty, queries change no field and a repeated query repeats its result.
C16_NeverBackToEmpty ==
    [][/\ (last'.op = "load_data" /\ last'.raise = "") => Loaded'
       /\ Loaded => Loaded'
       /\ last'.op \in Queries => UNCHANGED CourseSet
       /\ (last.op \in Queries /\ last'.op = last.op) => last' = last]_vars

\* The keys of a record that the round trip is about.
RoundTripKeys ==
    {"course_names", "course_grades", "course_credits", "course_count",
     "avg_score", "overall_gpa"}

\* A dict whose values are of JSON types as the caller passes it: str,
\* numbers, None, and lists of these.
JsonTyped(dict) ==
    \A key \in DOMAIN dict.d :
        \/ IsPlain(dict.d[key])
        \/ /\ dict.d[key].ty = "list"
           /\ \A i \in 1..Len(dict.d[key].items) : IsPlain(dict.d[key].items[i])

\* C17: after save_record(r) has returned True, load_history returns a log
\* whose last record has the course_names, course_grades, course_credits,
\* course_count, avg_score and overall_gpa of r, and a timestamp. r is the
\* dict the caller holds, which save_record updates in place; where r was
\* passed with values of JSON types only, the fields are also those passed.
C17_RoundTrip ==
    (reply.op = "load_history" /\ reply.after_save) =>
        /\ reply.raise = ""
        /\ reply.value.ty = "list"
        /\ Len(reply.value.items) >= 1
        /\ LET loaded == reply.value.items[Len(reply.value.items)]
           IN  /\ loaded.ty = "dict"
               /\ "timestamp" \in DOMAIN loaded.d
               /\ loaded.d["timestamp"].ty = "str"
               /\ \A key \in RoundTripKeys \cap DOMAIN given.d :
                      /\ key \in DOMAIN loaded.d
                      /\ loaded.d[key] = record_data.d[key]
                      /\ JsonTyped(given) => loaded.d[key] = given.d[key]

\* The history was loaded right after a second record was saved, one with
\* a NaN and a numpy integer in it.
C17_Witness ==
    /\ reply.op = "load_history"
    /\ reply.after_save
    /\ given = RecordB
    /\ Len(reply.value.items) >= 2

\* C18: delete_record(k) with 0 <= k < len(log) returns True and leaves the
\* log without its element k, the records after k one index lower and all
\* others as they were; with k negative or k >= len(log) it returns False
\* and leaves the file as it was.
C18_Delete ==
    [][(reply'.op = "delete_record" /\ reply'.arg.ty = "int") =>
          LET log == Log(history_file)
              k == reply'.arg.n \div 10
          IN  /\ reply'.raise = ""
              /\ IF 0 <= k /\ k < Len(log)
                 THEN /\ reply'.value = PyBool(TRUE)
                      /\ Log(history_file') =
                             [i \in 1..(Len(log) - 1) |->
                                 IF i <= k THEN log[i] ELSE log[i + 1]]
                 ELSE /\ reply'.value = PyBool(FALSE)
                      /\ history_file' = history_file]_vars

\* The first of at least two records was deleted.
C18_Witness ==
    /\ reply.op = "delete_record"
    /\ reply.arg = PyInt(0)
    /\ reply.value = PyBool(TRUE)
    /\ Len(Log(history_file)) >= 1
    /\ Log(history_file)[1].ty = "dict"

\* A record of the history log: a dict with the keys every record has.
IsRecord(v) == v.ty = "dict" /\ required_keys \subseteq DOMAIN v.d

\* The history file is missing or corrupt: it is no JSON document, or a
\* JSON document that is not an array of records.
Corrupt(f) ==
    \/ ~f.exists
    \/ f.content = Garbage
    \/ f.content.j # "array"
    \/ \E i \in 1..Len(Log(f)) : ~IsRecord(Log(f)[i])

\* C19: when the history file is missing or corrupt the history is taken
\* as empty: load_history returns an empty list, get_record_by_index
\* returns None for every index, delete_record returns False, and none of
\* them raises.
C19_CorruptIsEmpty ==
    [][(Corrupt(history_file) /\ reply'.arg.ty \in {"int", "none"}) =>
          /\ reply'.op = "load_history" =>
                 (reply'.raise = "" /\ reply'.value = PyList(<<>>))
          /\ reply'.op = "get_record_by_index" =>
                 (reply'.raise = "" /\ reply'.value = PyNone)
          /\ reply'.op = "delete_record" =>
                 (reply'.raise = "" /\ reply'.value = PyBool(FALSE)
                  /\ history_file' = history_file)]_vars

\* The file's extension is one the loader reads.
Spreadsheet == file.ext \in {".xlsx", ".xls"}

\* The name cell of a sheet row is empty: no value, or only whitespace.
NameEmpty(row) == row[2].ty \in {"nan", "none"} \/ Strip(str(row[2])) = <<>>

\* C20: load_from_excel fails with FileNotFoundError when the path does not
\* exist, and with ValueError when the extension is not .xlsx or .xls, when
\* the sheet has fewer than 4 columns, when it has no data row after the
\* header offset, or when no row has a non-empty name; in none of these
\* cases does it return a result.
C20_LoaderFailures ==
    (table # NoTable) =>
        /\ ~file.exists => table.raise = "FileNotFoundError"
        /\ (file.exists /\ ~Spreadsheet) => table.raise = "ValueError"
        /\ (file.exists /\ Spreadsheet /\ file.sheet.ncols < 4)
              => table.raise = "ValueError"
        /\ (file.exists /\ Spreadsheet /\ Len(file.sheet.rows) <= 2)
              => table.raise = "ValueError"
        /\ (file.exists /\ Spreadsheet
              /\ \A j \in 3..Len(file.sheet.rows) : NameEmpty(file.sheet.rows[j]))
              => table.raise = "ValueError"
        /\ table.raise # "" =>
              (table.course_count = 0 /\ table.course_names = <<>>
               /\ table.course_grades = <<>> /\ table.course_credits = <<>>)

\* The loader refused a readable four-column sheet with rows below the
\* header offset, none of which has a name.
C20_Witness ==
    /\ table.raise = "ValueError"
    /\ file.exists /\ Spreadsheet /\ file.parses
    /\ file.sheet.ncols = 4
    /\ Len(file.sheet.rows) > 3
    /\ \E j \in 3..Len(file.sheet.rows) : file.sheet.rows[j][2].ty = "nan"
    /\ \E j \in 3..Len(file.sheet.rows) : file.sheet.rows[j][2].ty = "str"

\* The rows of the sheet the loader scans for courses: those below the
\* header row and the row start_row passes over.
ScannedRows == SubSeq(file.sheet.rows, 3, Len(file.sheet.rows))

\* The rows with a name, in order.
Named(rows) == SelectSeq(rows, LAMBDA row : ~NameEmpty(row))

\* The loader ran on a readable spreadsheet of four columns.
ReadSheet ==
    /\ table # NoTable
    /\ file.exists /\ Spreadsheet /\ file.parses /\ file.sheet.ncols >= 4

\* The loader returned these rows as its courses, in this order.
ReturnedRows(rows) ==
    /\ table.raise = ""
    /\ table.course_count = Len(rows)
    /\ table.course_names = [k \in 1..Len(rows) |-> Strip(str(rows[k][2]))]
    /\ table.course_grades = [k \in 1..Len(rows) |-> rows[k][3]]
    /\ table.course_credits = [k \in 1..Len(rows) |-> rows[k][4]]

\* C21: load_from_excel returns exactly the data rows whose name cell is
\* not empty after trimming whitespace, in the order of the sheet; a row
\* with a blank name is in none of the three sequences, and course_count is
\* the length of each of them.
C21_NamedRowsReturned ==
    (ReadSheet /\ Named(ScannedRows) # <<>>) => ReturnedRows(Named(ScannedRows))

\* What load_from_excel does return: the scanned rows whose name the frame
\* holds as a value, a name of na_values counting as no name.
C21_RowsTheFrameNames ==
    LET kept == SelectSeq(ScannedRows,
                          LAMBDA row : /\ ~NameEmpty(row)
                                       /\ ~(row[2].ty = "str" /\ row[2].s \in na_values))
    IN  (ReadSheet /\ kept # <<>>) => ReturnedRows(kept)

\* The rows of the sheet below its header row.
RowsBelowHeader == SubSeq(file.sheet.rows, 2, Len(file.sheet.rows))

\* C22: load_from_excel skips exactly one row: row 0 of the sheet is the
\* header, and every row from row 1 on (0-indexed) that has a name is
\* returned as a course.
C22_OneRowSkipped ==
    (ReadSheet /\ Named(RowsBelowHeader) # <<>>)
        => ReturnedRows(Named(RowsBelowHeader))

\* C23: main() returns 0 on normal completion and a nonzero code whenever
\* the run ends by a startup failure or by a user interrupt, an interrupt
\* at the file prompt or the confirmation prompt included.
C23_ExitCodes ==
    (console.pc = "exited") =>
        /\ console.ended = "normal" => console.exit_code = 0
        /\ console.ended \in {"startup", "interrupt"} => console.exit_code # 0

\* The exit codes main() does give: an interrupt at the last prompt ends
\* the run with 130, a startup failure with 1, normal completion with 0.
C23_InterruptAtLastPrompt ==
    (console.pc = "exited") =>
        /\ console.ended = "normal" => console.exit_code = 0
        /\ console.ended = "startup" => console.exit_code = 1
        /\ console.ended = "interrupt" =>
              console.exit_code = IF loaded_once THEN 130 ELSE 0

\* The step called load_data on the calculator.
LoadDataInvoked == last' # last \/ CourseSet' # CourseSet

\* The step was an answer of the user at the file prompt that names a
\* missing file, a file of another extension or a file the loader refuses.
PathRefused ==
    /\ console.pc = "path" /\ console'.said = "path"
    /\ \/ ~file'.exists
       \/ file'.ext \notin {".xlsx", ".xls"}
       \/ table'.raise \in {"ValueError", "FileNotFoundError"}

\* The loop of ConsoleUI.run ended in the step.
LoopEnded ==
    /\ console.pc \in {"path", "confirm"}
    /\ console'.pc \notin {"path", "confirm"}

ConsoleStep ==
    /\ LoadDataInvoked =>
          /\ console.pc = "confirm" /\ console'.said = ""
          /\ table.raise = "" /\ file.exists /\ file.ext \in {".xlsx", ".xls"}
    /\ (console.pc = "confirm" /\ console'.said = "1") =>
          (console'.pc = "path" /\ UNCHANGED CourseSet)
    /\ PathRefused => (console'.pc = "path" /\ UNCHANGED CourseSet)
    /\ LoopEnded =>
          \/ LoadDataInvoked /\ last'.raise = "" /\ console'.pc = "wait"
          \/ console'.said = "^C" /\ console'.ended = "interrupt"

\* C30: in the console UI load_data is called only after the file was
\* loaded and the user confirmed the shown courses with an empty input; a
\* rejected confirmation ("1"), a missing file, an unsupported extension or
\* a loader error leads back to the file prompt with the calculator as it
\* was; the loop ends only after a load_data call succeeded or the user
\* interrupted.
C30_ConsoleLoop == [][ConsoleStep]_vars

\* The user was refused nothing, confirmed with the empty input, and the
\* loop ended with the courses of the file in the calculator.
C30_Witness ==
    /\ console.pc = "wait" /\ console.said = ""
    /\ table.raise = ""
    /\ course_count = table.course_count /\ course_count >= 1
    /\ last.op = "load_data" /\ last.raise = ""

\* The metrics of a record's own courses: a new calculator loaded with the
\* record's three lists gives the record's avg_score (as the label spells
\* it, to two decimals) and its overall_gpa.
Consistent(rec) ==
    LET names == [i \in 1..Len(rec.d.course_names.items) |->
                     rec.d.course_names.items[i].s]
        r == load_data(NewCalculator, ListArg(names),
                       ListArg(rec.d.course_grades.items),
                       ListArg(rec.d.course_credits.items))
        avg == calculate_average_score(r.self)
        gpa == calculate_overall_gpa(r.self)
    IN  /\ r.raise = "" /\ avg.raise = "" /\ gpa.raise = ""
        /\ rec.d.avg_score \in Format2f(avg.value)
        /\ rec.d.overall_gpa \in FormatGpa(gpa.value)

\* C24: every record a save action of the window appends to the history is
\* consistent: its avg_score and overall_gpa are the metrics of its own
\* course_names, course_grades and course_credits, whatever load-file,
\* calculate and save actions came before.
C24_RecordsConsistent ==
    \A i \in 1..Len(Log(history_file)) : Consistent(Log(history_file)[i])

\* The calculator holds the window's courses and the window's labels show
\* the metrics of the latest calculation, which was made on them.
CalculatedForWindow ==
    /\ window.open /\ window.save_enabled
    /\ args = [names |-> ListArg(window.course_names),
               grades |-> ListArg(window.course_grades),
               credits |-> ListArg(window.course_credits)]
    /\ last.op = "calculate_overall_gpa" /\ last.raise = ""

\* The step was a run of MainWindow._save_record.
SaveStep ==
    /\ window.open /\ window'.did = "_save_record"
    /\ <<window, history_file>>' # <<window, history_file>>

\* A record saved right after the calculation on the window's courses is
\* consistent.
C24_FreshRecordsConsistent ==
    [][(CalculatedForWindow /\ SaveStep
            /\ Len(Log(history_file')) = Len(Log(history_file)) + 1)
        => Consistent(Log(history_file')[Len(Log(history_file'))])]_vars

\* The lists of a record hold floats only.
NumericRecord(rec) ==
    /\ rec.ty = "dict"
    /\ {"course_names", "course_grades", "course_credits", "course_count",
        "avg_score", "overall_gpa", "timestamp"} \subseteq DOMAIN rec.d
    /\ \A i \in 1..Len(rec.d.course_grades.items) :
          rec.d.course_grades.items[i].ty \in {"float", "float2", "nan", "inf"}
    /\ \A i \in 1..Len(rec.d.course_credits.items) :
          rec.d.course_credits.items[i].ty \in {"float", "float2", "nan", "inf"}

\* C25: after a calculation of the window has succeeded for the courses it
\* holds, the save action appends exactly one record with numeric
\* course_grades and course_credits to the history, for every course set
\* the calculator accepts, those with grade labels included.
C25_SaveAppendsOne ==
    [][(CalculatedForWindow /\ SaveStep) =>
          /\ Len(Log(history_file')) = Len(Log(history_file)) + 1
          /\ SubSeq(Log(history_file'), 1, Len(Log(history_file)))
                = Log(history_file)
          /\ NumericRecord(Log(history_file')[Len(Log(history_file'))])]_vars

\* What the save action does do: with numeric cells only it appends one
\* numeric record; with a label or another text float() refuses among the
\* grades or credits it appends nothing.
C25_SaveOfNumericCells ==
    [][(CalculatedForWindow /\ SaveStep) =>
          IF WindowRecord.raise = ""
          THEN /\ Len(Log(history_file')) = Len(Log(history_file)) + 1
               /\ NumericRecord(Log(history_file')[Len(Log(history_file'))])
          ELSE history_file' = history_file /\ window'.failed]_vars

\* The step was a save_record that returned True.
SavedStep ==
    /\ reply'.op = "save_record" /\ reply'.value = PyBool(TRUE)
    /\ <<history_file, reply>>' # <<history_file, reply>>

\* C26: whenever save_record returns True the persisted log is the log
\* persisted before with the new record added at its end: every earlier
\* record is kept in its place and the length grows by one, also when
\* reading the file failed during the call.
C26_SaveKeepsLog ==
    [][SavedStep =>
          Log(history_file') = Append(Log(history_file), record_data')]_vars

\* What save_record keeps: the log load_history could read. A file the
\* process can read keeps its records.
C26_SaveKeepsReadableLog ==
    [][(SavedStep /\ history_file.readable) =>
          Log(history_file') = Append(Log(history_file), record_data')]_vars

\* The step was a load_data call that failed validation: it raised
\* TypeError or ValueError, which only the three checks at its top raise.
FailedValidation ==
    /\ last'.op = "load_data"
    /\ last'.raise \in {"TypeError", "ValueError"}

\* C27: a load_data call that fails validation (an argument that is no
\* list, lists of different lengths, empty lists) leaves course_names,
\* course_grades, course_credits, course_count and total_credits as they
\* were, and the metric queries return afterwards what they returned before.
C27_FailedValidationKeepsState ==
    [][FailedValidation =>
          /\ UNCHANGED CourseSet
          /\ \A before \in {Self} : \A after \in {Self'} :
                /\ calculate_average_score(after) = calculate_average_score(before)
                /\ calculate_course_gpa(after) = calculate_course_gpa(before)
                /\ calculate_overall_gpa(after) = calculate_overall_gpa(before)]_vars

\* A loaded calculator has refused a call and still holds its courses.
C27_Witness ==
    /\ last.op = "load_data" /\ last.raise \in {"TypeError", "ValueError"}
    /\ loaded_once /\ course_count >= 1
    /\ Len(course_grades) = course_count /\ Len(course_credits) = course_count
    /\ calculate_average_score(Self).raise = ""

\* A grade point calculate_course_gpa may return: 0.0, or 1.0 to 5.0.
InCourseRange(gpa) ==
    /\ gpa.ty = "rounded"
    /\ \/ gpa.lo = 0 /\ gpa.hi = 0
       \/ 10 <= gpa.lo /\ gpa.hi <= 50

\* The quotient calculate_overall_gpa rounds lies in [0.0, 5.0], so that
\* neither of its two range branches is taken.
InOverallRange(q) ==
    /\ q.ty = "ratio"
    /\ 0 <= q.num /\ q.num <= 5 * q.den

\* The grade point of a stored grade of 60 or more lies in [0.0, 5.0]
\* before it is rounded, so that neither range branch of the loop is taken.
NoRangeBranch(grade) ==
    (IsFinite(grade) /\ ~NumLt(grade, 600)) =>
        (0 <= grade.n - 500 /\ grade.n - 500 <= 500)

\* The ranges of C28 for one calculator.
GpaRanges(self) ==
    /\ \A r \in {calculate_course_gpa(self)} :
           /\ r.raise = ""
           /\ \A i \in 1..Len(r.value) : InCourseRange(r.value[i])
    /\ \A i \in 1..Len(self.course_grades) :
           NoRangeBranch(self.course_grades[i])
    /\ NumGt(self.total_credits, 0) =>
           \A r \in {calculate_overall_gpa(self)} :
               /\ r.raise = ""
               /\ r.value.ty = "rounded"
               /\ 0 <= r.value.lo /\ r.value.hi <= 50
               /\ InOverallRange(
                      Divide(WeightedSum(
                                 [i \in 1..Len(self.course_grades) |->
                                     PyFloat(course_gpa(self.course_grades[i]).hi)],
                                 self.course_credits),
                             self.total_credits))

\* C28: in every state with courses loaded, each value calculate_course_gpa
\* returns is 0.0 or lies in [1.0, 5.0]; when total_credits > 0,
\* calculate_overall_gpa returns a value in [0.0, 5.0]; and the values
\* both compute stay in range before rounding, so that the branches that
\* clamp a negative value or warn of one above 5.0 are never taken.
C28_GpaRanges ==
    \A self \in {Self} : self.course_count > 0 => GpaRanges(self)

\* With every stored credit a finite number and as many grades and credits
\* stored as there are courses, the ranges of C28 hold.
C28_RangesOfFiniteCredits ==
    \A self \in {Self} :
        (/\ self.course_count > 0
         /\ Len(self.course_grades) = self.course_count
         /\ Len(self.course_credits) = self.course_count
         /\ \A i \in 1..Len(self.course_credits) :
                IsFinite(self.course_credits[i]))
        => GpaRanges(self)

\* Writer w writes in this step and returns True, after writer v wrote and
\* returned True, and both had read the same log: w did not read what v
\* wrote, so both read before either wrote.
WritesLast(w, v) ==
    /\ writers[w].pc = "read"
    /\ writers'[w].pc = "returned" /\ writers'[w].value = PyBool(TRUE)
    /\ writers[v].pc = "returned" /\ writers[v].value = PyBool(TRUE)
    /\ writers[v].history = writers[w].history

\* C29: when two save_record calls on one history file both read the log
\* before either writes, the persisted log after both have written is the
\* last writer's: the log it read with its record at the end, without the
\* record of the other writer.
C29_LastWriterWins ==
    [][\A w \in Writers : \A v \in Writers \ {w} :
          WritesLast(w, v) =>
              /\ Log(history_file') = Append(writers[w].history.items,
                                             writers[w].record_data)
              /\ \A i \in 1..Len(Log(history_file')) :
                     Log(history_file')[i] # writers[v].record_data]_vars

\* Both writers read a log of one record and both returned True; the file
\* holds that record and the record of one writer.
C29_Witness ==
    /\ \A w \in Writers :
           /\ writers[w].pc = "returned" /\ writers[w].value = PyBool(TRUE)
           /\ writers[w].history.ty = "list"
           /\ Len(writers[w].history.items) = 1
    /\ writers[1].record_data # writers[2].record_data
    /\ Len(Log(history_file)) = 2
    /\ Log(history_file)[2] = writers[1].record_data
====
